---- MODULE Spec2Model ----
(***************************************************************************)
(* Model of ssh-utils: the authenticated encrypted vault                   *)
(* (src/config/crypto.rs, src/config/app_vault.rs) and its callers.        *)
(*                                                                         *)
(* Bytes are scaled down to 4 bits (0..15); the lengths the code fixes     *)
(* (16-byte IV, 32-byte tag, 32-byte key) are kept.  A byte with its top   *)
(* bit set (8..15) is non-ASCII, as 0x80..0xFF is for 8-bit bytes.         *)
(* SHA-256, Argon2 and the AES block function are external primitives;     *)
(* they are modelled by a deterministic absorb-and-squeeze function that   *)
(* keeps what the code relies on: determinism, dependence on every input   *)
(* byte, fixed output length.                                              *)
(***************************************************************************)
EXTENDS Integers, Sequences, FiniteSets, TLC

Byte == 0..15

\* app_vault.rs:131  vault.split_at(16)
IV_LEN == 16
\* app_vault.rs:132  rest.split_at(rest.len() - 32)
HMAC_LEN == 32
\* crypto.rs:29  let mut key_arr = [0u8; 32]
KEY_LEN == 32
\* crypto.rs:14  let mut salt = [0u8; 16]
SALT_LEN == 16

\* Characters the serialised forms give a meaning to.
Ch == [nl |-> 0, quote |-> 1, bsl |-> 2, empty |-> 3, hex0 |-> 4]

Take(s, n) == SubSeq(s, 1, n)
Drop(s, n) == SubSeq(s, n + 1, Len(s))

\* Bitwise exclusive or of two 4-bit bytes.
Xor(a, b) ==
    ((a + b) % 2)
    + 2 * (((a \div 2) + (b \div 2)) % 2)
    + 4 * (((a \div 4) + (b \div 4)) % 2)
    + 8 * (((a \div 8) + (b \div 8)) % 2)

-----------------------------------------------------------------------------
(* Hash primitives (sha2, hmac, argon2 crates).                            *)

\* One compression step absorbs byte b into the 15-bit chaining value h:
\* h' = (5 * h + b + 1) mod 2^15.  The steps over s[lo..hi] compose to
\* h' = (a * h + c) mod 2^15; Compress returns <<a, c>>.
RECURSIVE Compress(_, _, _)
Compress(s, lo, hi) ==
    IF lo > hi THEN <<1, 0>>
    ELSE IF lo = hi THEN <<5, s[lo] + 1>>
    ELSE LET m == (lo + hi) \div 2
             l == Compress(s, lo, m)
             r == Compress(s, m + 1, hi)
         IN  <<(r[1] * l[1]) % 32768, (r[1] * l[2] + r[2]) % 32768>>

\* hasher.update(s) / mac.update(s): absorb the bytes of s in order.
Update(h, s) ==
    LET m == Compress(s, 1, Len(s)) IN (m[1] * h + m[2]) % 32768

\* finalize(): squeeze the chaining value into n bytes.
Squeeze(h, n) ==
    SubSeq([j \in 1..n |->
        LET d == (j - 1) % 4
            p == IF d = 0 THEN 1 ELSE IF d = 1 THEN 16 ELSE IF d = 2 THEN 256 ELSE 4096
        IN  ((h \div p) + ((j - 1) \div 4)) % 16], 1, n)

\* Sha256::new(); update(data); finalize()
Sha256(data) == Squeeze(Update(2, data), 32)

\* HmacSha256::new_from_slice(key)
HmacNew(key) == Update(1, key)

\* crypto.rs: derive_sha256_digest
derive_sha256_digest(password) == Take(Sha256(password), SALT_LEN)

\* argon2::hash_raw(password, salt, Config::owasp3()): a 32-byte hash.
Argon2(password, salt) == Squeeze(Update(Update(3, password), salt), KEY_LEN)

\* crypto.rs: derive_key_from_password
derive_key_from_password(password) ==
    Argon2(password, derive_sha256_digest(password))

\* argon2::hash_raw as a Result: a salt shorter than 8 bytes is refused, a
\* password of any length taken.
hash_raw(password, salt) ==
    IF Len(salt) < 8 THEN [kind |-> "err", err |-> "argon2", val |-> <<>>]
    ELSE [kind |-> "ok", err |-> "", val |-> Argon2(password, salt)]

-----------------------------------------------------------------------------
(* AES-256-CTR (openssl Crypter).                                          *)

\* Cipher state after Crypter::new(cipher, mode, key, Some(iv)).
CrypterNew(key, iv) ==
    LET h == Update(Update(4, key), iv)
    IN  h + (h \div 16) + (h \div 256) + (h \div 4096)

\* The keystream byte at offset i (from 0).
KeyStream(c, i) == (c + 7 * i + (i \div 16)) % 16

\* Crypter::update + finalize in CTR mode: data xor keystream, same length.
CtrApply(key, iv, data) ==
    LET c == CrypterNew(key, iv)
    IN  SubSeq([i \in 1..Len(data) |-> Xor(data[i], KeyStream(c, i - 1))],
               1, Len(data))

\* crypto.rs: aes_encrypt
aes_encrypt(key, iv, data) == CtrApply(key, iv, data)

\* A decryption whose counter starts one byte late.
aes_decrypt_late(key, iv, data) ==
    LET c == CrypterNew(key, iv)
    IN  SubSeq([i \in 1..Len(data) |-> Xor(data[i], KeyStream(c, i))],
               1, Len(data))

\* crypto.rs: aes_decrypt
aes_decrypt(key, iv, data) == CtrApply(key, iv, data)

-----------------------------------------------------------------------------
(* Text conversions (hex crate, String::from_utf8, toml crate).            *)

\* hex::encode: two digits per byte, high half first.
RECURSIVE hex_encode(_)
hex_encode(bytes) ==
    IF bytes = <<>> THEN <<>>
    ELSE <<Ch.hex0 + (Head(bytes) \div 4), Ch.hex0 + (Head(bytes) % 4)>>
         \o hex_encode(Tail(bytes))

IsHexDigit(c) == c \in Ch.hex0..(Ch.hex0 + 3)

Failed == [ok |-> FALSE, val |-> <<>>]
Done(v) == [ok |-> TRUE, val |-> v]

\* hex::decode: an error on odd length or on a character that is no digit.
hex_decode(str) ==
    IF Len(str) % 2 # 0 \/ \E i \in 1..Len(str) : ~IsHexDigit(str[i])
    THEN Failed
    ELSE Done(SubSeq([i \in 1..(Len(str) \div 2) |->
                 4 * (str[2 * i - 1] - Ch.hex0) + (str[2 * i] - Ch.hex0)],
                 1, Len(str) \div 2))

\* String::from_utf8: ASCII bytes (0..7), or a lead byte (12..15) followed
\* by one continuation byte (8..11).
RECURSIVE Utf8From(_, _)
Utf8From(b, i) ==
    IF i > Len(b) THEN TRUE
    ELSE IF b[i] < 8 THEN Utf8From(b, i + 1)
    ELSE IF b[i] >= 12 /\ i + 1 <= Len(b) /\ b[i + 1] \in 8..11
         THEN Utf8From(b, i + 2)
    ELSE FALSE

from_utf8(bytes) == IF Utf8From(bytes, 1) THEN Done(bytes) ELSE Failed

\* A TOML basic string: quotes around the text, with newline, quote and
\* backslash escaped by a backslash.
RECURSIVE TomlEscape(_)
TomlEscape(s) ==
    IF s = <<>> THEN <<>>
    ELSE (IF Head(s) \in {Ch.nl, Ch.quote, Ch.bsl}
          THEN <<Ch.bsl, Head(s)>> ELSE <<Head(s)>>) \o TomlEscape(Tail(s))

TomlString(s) == <<Ch.quote>> \o TomlEscape(s) \o <<Ch.quote>>

\* One [[servers]] table: the header line, then id and password.
TomlTable(server) ==
    <<Ch.nl>> \o TomlString(server.id) \o TomlString(server.password)

RECURSIVE TomlTables(_)
TomlTables(servers) ==
    IF servers = <<>> THEN <<>>
    ELSE TomlTable(Head(servers)) \o TomlTables(Tail(servers))

\* toml::to_string(vault): "servers = []" for the empty list, else one
\* [[servers]] table per record, in order.
toml_to_string(servers) ==
    IF servers = <<>> THEN <<Ch.empty>> ELSE TomlTables(servers)

NoString == [ok |-> FALSE, val |-> <<>>, next |-> 0]

\* Reads a basic string whose opening quote is before position i.
RECURSIVE TomlReadString(_, _, _)
TomlReadString(t, i, acc) ==
    IF i > Len(t) THEN NoString
    ELSE IF t[i] = Ch.quote THEN [ok |-> TRUE, val |-> acc, next |-> i + 1]
    ELSE IF t[i] = Ch.nl THEN NoString
    ELSE IF t[i] = Ch.bsl
         THEN IF i + 1 <= Len(t) /\ t[i + 1] \in {Ch.nl, Ch.quote, Ch.bsl}
              THEN TomlReadString(t, i + 2, Append(acc, t[i + 1]))
              ELSE NoString
    ELSE TomlReadString(t, i + 1, Append(acc, t[i]))

TomlQuoted(t, i) ==
    IF i <= Len(t) /\ t[i] = Ch.quote THEN TomlReadString(t, i + 1, <<>>)
    ELSE NoString

\* Reads the tables from position i on.
RECURSIVE TomlReadTables(_, _, _)
TomlReadTables(t, i, acc) ==
    IF i > Len(t) THEN Done(acc)
    ELSE IF t[i] # Ch.nl THEN Failed
    ELSE LET id == TomlQuoted(t, i + 1)
         IN  IF ~id.ok THEN Failed
             ELSE LET pw == TomlQuoted(t, id.next)
                  IN  IF ~pw.ok THEN Failed
                      ELSE TomlReadTables(t, pw.next,
                               Append(acc, [id |-> id.val, password |-> pw.val]))

\* toml::from_str::<Vault>(text): the field servers is required.
toml_from_str(text) ==
    IF text = <<Ch.empty>> THEN Done(<<>>)
    ELSE IF text = <<>> THEN Failed
    ELSE TomlReadTables(text, 1, <<>>)

-----------------------------------------------------------------------------
(* app_vault.rs: sealing and opening the vault, per-field passwords.       *)

\* anyhow::Result<T> as a value; a panic aborts the call instead.
Ok(v) == [kind |-> "ok", err |-> "", val |-> v]
Err(e) == [kind |-> "err", err |-> e, val |-> <<>>]
Panic == [kind |-> "panic", err |-> "", val |-> <<>>]
Pending == [kind |-> "pending", err |-> "", val |-> <<>>]

\* The tag over the ciphertext alone.
VaultMacNoIv(key, iv, ct) == Squeeze(Update(HmacNew(key), ct), HMAC_LEN)

\* mac.update(iv); mac.update(encrypted_data); finalize
VaultMac(key, iv, ct) ==
    Squeeze(Update(Update(HmacNew(key), iv), ct), HMAC_LEN)

\* A blob with the tag in front of the ciphertext.
encrypt_vault_tag_first(servers, key, iv) ==
    LET ct == aes_encrypt(key, iv, toml_to_string(servers))
    IN  iv \o VaultMac(key, iv, ct) \o ct

\* encrypt_vault, with iv the value generate_iv() returned.
encrypt_vault(servers, key, iv) ==
    LET ct == aes_encrypt(key, iv, toml_to_string(servers))
    IN  iv \o ct \o VaultMac(key, iv, ct)

\* decrypt_vault as the sequence of its steps.  pc names the next step,
\* trace lists the calls made so far.
DvStart(blob, key) ==
    [pc |-> "split", blob |-> blob, key |-> key, iv |-> <<>>, ct |-> <<>>,
     tag |-> <<>>, plain |-> <<>>, trace |-> <<>>, result |-> Pending]

DvEnd(d, step, r) ==
    [d EXCEPT !.pc = "done", !.trace = Append(@, step), !.result = r]

\* vault.split_at(16); rest.split_at(rest.len() - 32).  split_at panics when
\* mid > len; rest.len() - 32 overflows below 32 (a panic in a debug build,
\* a wrapped mid > len and so a panic in split_at in a release build).
DvSplit(d) ==
    IF Len(d.blob) < IV_LEN THEN DvEnd(d, "split", Panic)
    ELSE LET rest == Drop(d.blob, IV_LEN)
         IN  IF Len(rest) < HMAC_LEN THEN DvEnd(d, "split", Panic)
             ELSE [d EXCEPT !.pc = "verify", !.trace = Append(@, "split"),
                            !.iv = Take(d.blob, IV_LEN),
                            !.ct = Take(rest, Len(rest) - HMAC_LEN),
                            !.tag = Drop(rest, Len(rest) - HMAC_LEN)]

\* A verification whose result is dropped.
DvVerifyIgnored(d) ==
    [d EXCEPT !.pc = "decrypt", !.trace = Append(@, "verify")]

\* mac.verify_slice(hmac).context("HMAC verification failed")?
DvVerify(d) ==
    IF VaultMac(d.key, d.iv, d.ct) = d.tag
    THEN [d EXCEPT !.pc = "decrypt", !.trace = Append(@, "verify")]
    ELSE DvEnd(d, "verify", Err("hmac"))

\* aes_decrypt(encryption_key, iv, encrypted_data)?
DvDecrypt(d) ==
    [d EXCEPT !.pc = "utf8", !.trace = Append(@, "aes_decrypt"),
              !.plain = aes_decrypt(d.key, d.iv, d.ct)]

\* String::from_utf8(decrypted_data).context(...)?
DvUtf8(d) ==
    IF from_utf8(d.plain).ok
    THEN [d EXCEPT !.pc = "parse", !.trace = Append(@, "from_utf8")]
    ELSE DvEnd(d, "from_utf8", Err("utf8"))

\* toml::from_str(&decrypted_str).context(...)?; Ok(vault)
DvParse(d) ==
    LET v == toml_from_str(d.plain)
    IN  DvEnd(d, "from_str", IF v.ok THEN Ok(v.val) ELSE Err("toml"))

DvStep(d) ==
    CASE d.pc = "split" -> DvSplit(d)
      [] d.pc = "verify" -> DvVerify(d)
      [] d.pc = "decrypt" -> DvDecrypt(d)
      [] d.pc = "utf8" -> DvUtf8(d)
      [] d.pc = "parse" -> DvParse(d)
      [] OTHER -> d

RECURSIVE DvRun(_)
DvRun(d) == IF d.pc = "done" THEN d ELSE DvRun(DvStep(d))

\* decrypt_vault(vault, encryption_key)
decrypt_vault(blob, key) == DvRun(DvStart(blob, key)).result

\* derive_iv_from_id: the first 16 bytes of SHA-256(id).
derive_iv_from_id(id) == Take(Sha256(id), IV_LEN)

\* encrypt_password(id, password, encryption_key)
encrypt_password(id, password, key) ==
    hex_encode(aes_encrypt(key, derive_iv_from_id(id), password))

\* decrypt_password(id, encrypted_password, encryption_key)
decrypt_password(id, encrypted_password, key) ==
    LET data == hex_decode(encrypted_password)
    IN  IF ~data.ok THEN Err("hex")
        ELSE LET str == from_utf8(aes_decrypt(key, derive_iv_from_id(id), data.val))
             IN  IF str.ok THEN Ok(str.val) ELSE Err("utf8")

-----------------------------------------------------------------------------
(* app_vault.rs: the Vault methods.  v is the store: the in-memory list    *)
(* and the bytes of encrypted_data.bin.  iv is what generate_iv() returns  *)
(* and fs what the file system does with the write.                        *)

\* What create_dir_all / fs::write may do: succeed; fail before the file
\* is touched; fail after the file was truncated and partly written (the
\* first 16 bytes stand for the part that was written).
FsOutcomes == {"ok", "denied", "short"}

\* iter().position(|server| server.id == id): the first match, 0 for None.
FindPos(list, id) ==
    LET S == {i \in 1..Len(list) : list[i].id = id}
    IN  IF S = {} THEN 0 ELSE CHOOSE i \in S : \A j \in S : i <= j

\* Vec::remove(pos)
RemoveAt(list, pos) == SubSeq(list, 1, pos - 1) \o SubSeq(list, pos + 1, Len(list))

\* Vault::save
save(list, old_file, key, iv, fs) ==
    LET encrypt_data == encrypt_vault(list, key, iv)
    IN  CASE fs = "ok" -> [file |-> encrypt_data, result |-> Ok(<<>>)]
          [] fs = "short" ->
                [file |-> Take(encrypt_data, IV_LEN),
                 result |-> Err("persist")]
          [] OTHER -> [file |-> old_file, result |-> Err("persist")]

Returned(list, w) ==
    [servers |-> list, file |-> w.file, result |-> w.result, saved |-> TRUE]

NotFound(v) ==
    [servers |-> v.servers, file |-> v.file, result |-> Err("notfound"),
     saved |-> FALSE]

\* A modify_server that sets the password of every record.
modify_server_all(v, id, new_server, key, iv, fs) ==
    LET list == [i \in 1..Len(v.servers) |->
                    [v.servers[i] EXCEPT !.password = new_server.password]]
    IN  Returned(list, save(list, v.file, key, iv, fs))

\* A modify_server that stores the record when no record has the id.
modify_server_upsert(v, id, new_server, key, iv, fs) ==
    LET pos == FindPos(v.servers, id)
        list == IF pos # 0
                THEN [v.servers EXCEPT ![pos].password = new_server.password]
                ELSE Append(v.servers, new_server)
    IN  Returned(list, save(list, v.file, key, iv, fs))

\* Vault::modify_server
modify_server(v, id, new_server, key, iv, fs) ==
    LET pos == FindPos(v.servers, id)
    IN  IF pos # 0
        THEN LET list == [v.servers EXCEPT ![pos].password = new_server.password]
             IN  Returned(list, save(list, v.file, key, iv, fs))
        ELSE NotFound(v)

\* An add_server that saves before it pushes.
add_server_save_first(v, new_server, key, iv, fs) ==
    Returned(Append(v.servers, new_server), save(v.servers, v.file, key, iv, fs))

\* Vault::add_server
add_server(v, new_server, key, iv, fs) ==
    LET list == Append(v.servers, new_server)
    IN  Returned(list, save(list, v.file, key, iv, fs))

\* A delete_server that removes the last record.
delete_server_last(v, id, key, iv, fs) ==
    IF FindPos(v.servers, id) # 0
    THEN LET list == RemoveAt(v.servers, Len(v.servers))
         IN  Returned(list, save(list, v.file, key, iv, fs))
    ELSE NotFound(v)

\* A delete_server that saves the list also when no record has the id.
delete_server_resave(v, id, key, iv, fs) ==
    LET pos == FindPos(v.servers, id)
        list == IF pos # 0 THEN RemoveAt(v.servers, pos) ELSE v.servers
    IN  Returned(list, save(list, v.file, key, iv, fs))

\* Vault::delete_server
delete_server(v, id, key, iv, fs) ==
    LET pos == FindPos(v.servers, id)
    IN  IF pos # 0
        THEN LET list == RemoveAt(v.servers, pos)
             IN  Returned(list, save(list, v.file, key, iv, fs))
        ELSE NotFound(v)

\* app.rs, Enter: vault.servers.iter().find_map(|s| (s.id == server_id)
\* .then(|| decrypt_password(..))): None when no record has the id.
None == [kind |-> "none", err |-> "", val |-> <<>>]
find_password(list, server_id, key) ==
    LET pos == FindPos(list, server_id)
    IN  IF pos = 0 THEN None
        ELSE decrypt_password(list[pos].id, list[pos].password, key)

-----------------------------------------------------------------------------
(* main.rs: init_vault and what main does with its result.                 *)

\* for attempt in 1..=3
LoopLast == 3
\* if attempt == 3 { .. std::process::exit(1) }
ExitAttempt == 3

\* How one pass of init_vault's loop ends: "loop" goes on to the next
\* attempt, "returned" returns result to main, "exit1" is process::exit(1),
\* "panic" aborts.
Pass(end, result, key) == [end |-> end, result |-> result, key |-> key]

\* A pass that prompts again whatever error decrypt_vault returned.
init_vault_attempt_any(attempt, io, passphrase, vault_buf) ==
    IF io # "ok" THEN Pass("returned", Err("io"), <<>>)
    ELSE LET try_encryption_key == derive_key_from_password(passphrase)
             r == decrypt_vault(vault_buf, try_encryption_key)
         IN  CASE r.kind = "ok" -> Pass("returned", r, try_encryption_key)
               [] r.kind = "panic" -> Pass("panic", Panic, <<>>)
               [] OTHER ->
                    IF attempt = ExitAttempt THEN Pass("exit1", r, <<>>)
                    ELSE IF attempt = LoopLast THEN Pass("panic", Panic, <<>>)
                    ELSE Pass("loop", r, <<>>)

\* init_vault, vault file present: the body of the loop for one attempt.
\* io is "prompt" or "open" when prompt_passphrase or File::open /
\* read_to_end fails, "ok" otherwise.
init_vault_attempt(attempt, io, passphrase, vault_buf) ==
    IF io # "ok" THEN Pass("returned", Err("io"), <<>>)
    ELSE LET try_encryption_key == derive_key_from_password(passphrase)
             r == decrypt_vault(vault_buf, try_encryption_key)
         IN  CASE r.kind = "ok" -> Pass("returned", r, try_encryption_key)
               [] r.kind = "panic" -> Pass("panic", Panic, <<>>)
               [] r = Err("hmac") ->
                    IF attempt = ExitAttempt THEN Pass("exit1", r, <<>>)
                    \* the loop ran out: unreachable!()
                    ELSE IF attempt = LoopLast THEN Pass("panic", Panic, <<>>)
                    ELSE Pass("loop", r, <<>>)
               [] OTHER -> Pass("returned", Err(r.err), <<>>)

\* init_vault, first use: two prompts, then an empty vault is saved.
\* A first use that never compares the two entries.
init_vault_first_use_unconfirmed(passphrase, confirm_passphrase, old_file, iv, fs) ==
    LET try_encryption_key == derive_key_from_password(passphrase)
        w == save(<<>>, old_file, try_encryption_key, iv, fs)
    IN  [end |-> "returned", key |-> try_encryption_key, file |-> w.file,
         result |-> IF w.result.kind = "ok" THEN Ok(<<>>) ELSE w.result]

init_vault_first_use(passphrase, confirm_passphrase, old_file, iv, fs) ==
    IF passphrase = confirm_passphrase
    THEN LET try_encryption_key == derive_key_from_password(passphrase)
             w == save(<<>>, old_file, try_encryption_key, iv, fs)
         IN  [end |-> "returned", key |-> try_encryption_key, file |-> w.file,
              result |-> IF w.result.kind = "ok" THEN Ok(<<>>) ELSE w.result]
    ELSE [end |-> "exit1", key |-> <<>>, file |-> old_file, result |-> Pending]

\* A main that goes on to the App whatever init_vault returned.
main_after_init_always(result, setup) ==
    IF setup = "ok" THEN "run" ELSE "exit"

\* main: init_vault(&mut encryption_key)?, then read_config()?, App::new(..)?,
\* create_terminal()?, setup_terminal(..)? and run_app.
main_after_init(result, setup) ==
    IF result.kind = "ok" /\ setup = "ok" THEN "run" ELSE "exit"

\* What can go wrong between init_vault and run_app: read_config or App::new
\* ("config"), SavePosition or enable_raw_mode ("raw"), Terminal::with_options
\* or terminal.clear ("terminal").
Setups == {"ok", "config", "raw", "terminal"}

\* create_terminal and setup_terminal: enable_raw_mode()? comes before
\* Terminal::with_options(..) and terminal.clear()?.
create_terminal(result, setup) ==
    result.kind = "ok" /\ setup \in {"ok", "terminal"}

\* restore_terminal: execute!(..)? and disable_raw_mode()?; raw mode after it.
restore_terminal(raw, io) == IF io = "ok" THEN FALSE ELSE raw

\* How App::run ends: Ok(()) on q, Esc or Ctrl+C, an error passed up with ?,
\* or a panic.
RunEnds == {"quit", "err", "panic"}

\* main from run_app(app, &mut terminal).await? on, and panic_hook: raw mode
\* when the process ends.
run_app_ends(raw, outcome, io) ==
    CASE outcome = "quit" -> restore_terminal(raw, io)
      [] outcome = "panic" -> restore_terminal(raw, io)
      [] OTHER -> raw

\* The status main ends with.
run_app_status(outcome, io) ==
    CASE outcome = "quit" -> IF io = "ok" THEN "ok" ELSE "error"
      [] outcome = "panic" -> "panic"
      [] OTHER -> "error"

-----------------------------------------------------------------------------
(* ssh/common.rs, ssh/password_session.rs: the copy loop of call.          *)

\* The state of one call: its locals (stdin_closed, last_size), what it did
\* to the channel and to stdout so far, and how it returned.
\*   reads  completed stdin.read calls     read   the bytes they returned
\*   sent   bytes passed to channel.data   eofs   calls of channel.eof
\*   out    bytes written to stdout
\*   winch  window_change calls: the size sent, and Len(out) at that time
\*   pty    request_pty calls: the size asked for
\*   execs  calls of channel.exec
\* The call starts with the size captured for the channel (SshChannel::new,
\* or size() at the top of PasswordSession::call) and is about to ask for
\* the PTY.
CallStart(size) ==
    [pc |-> "pty", result |-> Pending, stdin_closed |-> FALSE,
     last_size |-> size, reads |-> 0, read |-> <<>>, sent |-> <<>>,
     eofs |-> 0, out |-> <<>>, winch |-> <<>>, failed |-> FALSE,
     pty |-> <<>>, execs |-> 0]

\* An awaited operation failed: ? returns the error.
Fail(c) == [c EXCEPT !.pc = "done", !.result = Err("io"), !.failed = TRUE]

\* select! finds every branch disabled and has no else branch.
Abort(c) == [c EXCEPT !.pc = "done", !.result = Panic]

\* A call that starts the command without asking for a PTY.
request_pty_skipped(c, io) == [c EXCEPT !.pc = "exec"]

\* channel.request_pty(false, TERM, w, h, 0, 0, &[]).await? with (w, h) the
\* size captured for the channel.
request_pty(c, io) ==
    LET c1 == [c EXCEPT !.pty = Append(@, c.last_size)]
    IN  IF io = "ok" THEN [c1 EXCEPT !.pc = "exec"] ELSE Fail(c1)

\* channel.exec(true, command).await?, then the locals of the loop.
exec(c, io) ==
    LET c1 == [c EXCEPT !.execs = @ + 1]
    IN  IF io = "ok" THEN [c1 EXCEPT !.pc = "loop"] ELSE Fail(c1)

\* The precondition of the stdin branch that never turns false.
stdin_polled_always(c) == TRUE

\* r = stdin.read(&mut buf), if !stdin_closed
stdin_polled(c) == ~c.stdin_closed

\* A stdin branch that puts the newest bytes first.
on_stdin_newest_first(c, r, io) ==
    LET c1 == [c EXCEPT !.reads = @ + 1]
    IN  CASE r.kind = "eof" ->
               [c1 EXCEPT !.stdin_closed = TRUE, !.eofs = @ + 1]
          [] r.kind = "err" -> Fail(c1)
          [] OTHER -> [c1 EXCEPT !.read = @ \o r.bytes, !.sent = r.bytes \o @]

\* A stdin branch that takes the end of local input for the end of the call.
on_stdin_eof_returns(c, r, io) ==
    LET c1 == [c EXCEPT !.reads = @ + 1]
    IN  CASE r.kind = "eof" ->
               [c1 EXCEPT !.stdin_closed = TRUE, !.eofs = @ + 1, !.pc = "done",
                          !.result = Ok(0)]
          [] r.kind = "err" -> Fail(c1)
          [] OTHER -> [c1 EXCEPT !.read = @ \o r.bytes, !.sent = @ \o r.bytes]

\* The stdin branch: Ok(0) (r.kind = "eof") closes stdin and sends eof,
\* Ok(n) (r.kind = "bytes") sends the bytes read, Err returns. io is "ok"
\* unless the awaited channel call fails.
on_stdin(c, r, io) ==
    LET c1 == [c EXCEPT !.reads = @ + 1]
    IN  CASE r.kind = "eof" ->
               LET c2 == [c1 EXCEPT !.stdin_closed = TRUE, !.eofs = @ + 1]
               IN  IF io = "ok" THEN c2 ELSE Fail(c2)
          [] r.kind = "err" -> Fail(c1)
          [] OTHER ->
               LET c2 == [c1 EXCEPT !.read = @ \o r.bytes]
               IN  IF io = "ok" THEN [c2 EXCEPT !.sent = @ \o r.bytes]
                   ELSE Fail(c2)

\* stdout.write_all(data), stdout.flush(): a failed write has written all
\* but the last byte.
write_all(c, data, io) ==
    IF io = "write" THEN Fail([c EXCEPT !.out = @ \o Take(data, Len(data) - 1)])
    ELSE [c EXCEPT !.out = @ \o data]

\* A Data arm that keeps only the newest payload on the screen.
on_data_overwrite(c, session, data, size, io) == [c EXCEPT !.out = data]

\* ChannelMsg::Data in SshChannel::call (key sessions): the window size is
\* compared and sent first; in PasswordSession::call: the data is written.
on_data(c, session, data, size, io) ==
    IF session = "key" /\ size # c.last_size
    THEN LET c1 == [c EXCEPT !.winch = Append(@, [size |-> size, at |-> Len(c.out)])]
         IN  IF io = "winch" THEN Fail(c1)
             ELSE write_all([c1 EXCEPT !.last_size = size], data, io)
    ELSE write_all(c, data, io)

\* ChannelMsg::ExitStatus: code = exit_status, eof unless stdin is closed,
\* break, Ok(code).
on_exit_status(c, exit_status, io) ==
    IF ~c.stdin_closed
    THEN LET c1 == [c EXCEPT !.eofs = @ + 1]
         IN  IF io = "ok" THEN [c1 EXCEPT !.pc = "done", !.result = Ok(exit_status)]
             ELSE Fail(c1)
    ELSE [c EXCEPT !.pc = "done", !.result = Ok(exit_status)]

\* An arm that takes the close of the channel for a clean exit.
on_other_close_ok(c, msg) ==
    IF msg.type = "Close" THEN [c EXCEPT !.pc = "done", !.result = Ok(0)] ELSE c

\* _ => {}
on_other(c, msg) == c

\* Some(msg) = channel.wait() => match msg
on_msg(c, session, msg, size, io) ==
    CASE msg.type = "Data" -> on_data(c, session, msg.data, size, io)
      [] msg.type = "ExitStatus" -> on_exit_status(c, msg.exit_status, io)
      [] OTHER -> on_other(c, msg)

-----------------------------------------------------------------------------
(* ssh/password_session.rs, ssh/key_session.rs: connect; app.rs: what the  *)
(* Enter key does with a session.                                          *)

\* ssh_session.rs: enum AuthMethod { Password(String), Key(PathBuf) }
AuthMethods == {"Password", "Key"}

\* What client::connect meets: "ok", or "refused" for a name that does not
\* resolve or a host that does not answer.
Transports == {"ok", "refused"}

\* What the server does with an authentication request: Ok(true),
\* Ok(false), or the connection breaks and the request returns Err.
AuthReplies == {"accept", "reject", "broken"}

\* The messages connect bails with when the server rejects the request;
\* "russh: connect" and "russh: authenticate" stand for the errors of
\* russh that ? passes on.
PasswordAuthFailed == "Authentication (with password) failed"
PublicKeyAuthFailed == "public key authentication failed"

\* What connect returned and what it did on the way: transports counts the
\* client::connect calls that succeeded, auths the authentication requests
\* sent to the server.
Conn(result, transports, auths) ==
    [result |-> result, transports |-> transports, auths |-> auths]

\* A connect that reports every failure with the same text.
password_connect_opaque(auth, transport, reply) ==
    IF transport = "ok" /\ auth = "Password" /\ reply = "accept"
    THEN Conn(Ok(<<>>), 1, 1)
    ELSE Conn(Err("connect failed"), IF transport = "ok" THEN 1 ELSE 0,
              IF transport = "ok" /\ auth = "Password" THEN 1 ELSE 0)

\* PasswordSession::connect
password_connect(auth, transport, reply) ==
    IF transport # "ok" THEN Conn(Err("russh: connect"), 0, 0)
    ELSE IF auth = "Password"
         THEN CASE reply = "accept" -> Conn(Ok(<<>>), 1, 1)
                [] reply = "reject" -> Conn(Err(PasswordAuthFailed), 1, 1)
                [] OTHER -> Conn(Err("russh: authenticate"), 1, 1)
         ELSE Conn(Err("Key authentication not implemented for PasswordSession"), 1, 0)

\* KeySession::connect
key_connect(auth, transport, reply) ==
    IF auth # "Key" THEN Conn(Err("KeySession only supports key authentication"), 0, 0)
    ELSE IF transport # "ok" THEN Conn(Err("russh: connect"), 0, 0)
    ELSE CASE reply = "accept" -> Conn(Ok(<<>>), 1, 1)
           [] reply = "reject" -> Conn(Err(PublicKeyAuthFailed), 1, 1)
           [] OTHER -> Conn(Err("russh: authenticate"), 1, 1)

connect(kind, auth, transport, reply) ==
    IF kind = "key" THEN key_connect(auth, transport, reply)
    ELSE password_connect(auth, transport, reply)

\* App: the fields the Enter key touches, the session it holds and what it
\* did with it.
\*   pc     "list", "connected", "call", "close", "back" (the handler is
\*          over), "exit" (run returned an error), "panic"
\*   caller "app" for App::run, "lib" for a direct caller of the trait
\*   calls, closes    invocations of call and of close on the session
AppStart ==
    [pc |-> "list", caller |-> "", kind |-> "", auth |-> "",
     transport |-> "", reply |-> "", conn |-> Conn(Pending, 0, 0),
     show_popup |-> FALSE, popup_info |-> [message |-> "", popup_type |-> ""],
     is_connecting |-> FALSE, calls |-> 0, closes |-> 0,
     call_result |-> Pending, close_result |-> Pending, code |-> 0,
     password |-> <<>>, key_path |-> "", secret |-> <<>>]

\* App::render_popup
render_popup(a, message, popup_type) ==
    [a EXCEPT !.popup_info = [message |-> message, popup_type |-> popup_type],
              !.show_popup = TRUE]

\* An Enter handler that logs in with the stored password even when it is
\* empty.
enter_password_always(a, password, key, io, transport, reply) ==
    LET a1 == render_popup([a EXCEPT !.caller = "app", !.is_connecting = TRUE,
                                     !.password = password],
                           "Connecting...", "Info")
        c == connect("password", "Password", transport, reply)
        a2 == [a1 EXCEPT !.kind = "password", !.auth = "Password",
                         !.secret = password, !.transport = transport,
                         !.reply = reply, !.conn = c]
    IN  IF io # "ok" THEN [a1 EXCEPT !.pc = "exit"]
        ELSE IF c.result.kind = "ok"
        THEN [render_popup(a2, "Connected!", "Info") EXCEPT !.pc = "connected"]
        ELSE [render_popup(a2, c.result.err, "Error")
                 EXCEPT !.is_connecting = FALSE, !.pc = "back"]

\* Enter with a server selected whose password was found and decrypted to
\* password; key tells what find_best_key and load_key_with_passphrase
\* meet ("found", "none", "locked"), io whether draw succeeds.
enter(a, password, key, io, transport, reply) ==
    LET a1 == render_popup([a EXCEPT !.caller = "app", !.is_connecting = TRUE,
                                     !.password = password],
                           "Connecting...", "Info")
        is_password_empty == password = <<>>
    IN  IF io # "ok" THEN [a1 EXCEPT !.pc = "exit"]
        ELSE IF is_password_empty /\ key = "none"
        THEN [render_popup(a1, "No suitable SSH key found", "Error")
                 EXCEPT !.key_path = key, !.is_connecting = FALSE, !.pc = "back"]
        ELSE IF is_password_empty /\ key = "locked"
        THEN [render_popup(a1, "Wrong passphrase.", "Error")
                 EXCEPT !.key_path = key, !.is_connecting = FALSE, !.pc = "back"]
        ELSE LET kind == IF is_password_empty THEN "key" ELSE "password"
                 auth == IF is_password_empty THEN "Key" ELSE "Password"
                 c == connect(kind, auth, transport, reply)
                 a2 == [a1 EXCEPT !.kind = kind, !.auth = auth,
                                  !.key_path = IF is_password_empty THEN key
                                               ELSE "",
                                  !.secret = password,
                                  !.transport = transport, !.reply = reply,
                                  !.conn = c]
             IN  IF c.result.kind = "ok"
                 THEN [render_popup(a2, "Connected!", "Info")
                          EXCEPT !.pc = "connected"]
                 ELSE [render_popup([a2 EXCEPT !.show_popup = TRUE],
                                    IF c.result.err = ""
                                    THEN "Connection error occurred"
                                    ELSE c.result.err, "Error")
                          EXCEPT !.is_connecting = FALSE, !.pc = "back"]

\* Ok(mut ssh): draw, sleep, clear the terminal, then ssh.call(..): io is
\* "term" when draw, clear or execute! fails, "open" when the channel
\* cannot be opened or size() fails at the top of call.
call_begin(a, io) ==
    IF io = "term" THEN [a EXCEPT !.pc = "exit"]
    ELSE [a EXCEPT !.calls = @ + 1, !.pc = "call"]

\* A handler that leaves at once when call returned an error.
call_returns_err_leaves(a, result) ==
    CASE result.kind = "ok" ->
             [a EXCEPT !.call_result = result, !.code = result.val,
                       !.pc = "close"]
      [] OTHER ->
             [render_popup([a EXCEPT !.call_result = result], result.err, "Error")
                 EXCEPT !.is_connecting = FALSE, !.code = 1, !.pc = "back"]

\* match ssh.call(&server_shell).await: Ok(code) => code, Err(e) => popup
\* and 1; a panic inside call unwinds through the handler.
call_returns(a, result) ==
    CASE result.kind = "ok" ->
             [a EXCEPT !.call_result = result, !.code = result.val,
                       !.pc = "close"]
      [] result.kind = "panic" ->
             [a EXCEPT !.call_result = result, !.pc = "panic"]
      [] OTHER ->
             [render_popup([a EXCEPT !.call_result = result], result.err, "Error")
                 EXCEPT !.is_connecting = FALSE, !.code = 1, !.pc = "close"]

\* match ssh.close().await, then terminal.clear()?, is_connecting = false,
\* show_popup = false: io is "close" when disconnect fails, "term" when
\* terminal.clear fails.
close(a, io) ==
    LET a1 == [a EXCEPT !.closes = @ + 1,
                        !.close_result = IF io = "close" THEN Err("io")
                                         ELSE Ok(<<>>)]
        a2 == IF io = "close"
              THEN [render_popup(a1, "io", "Error") EXCEPT !.is_connecting = FALSE]
              ELSE a1
    IN  IF io = "term" THEN [a2 EXCEPT !.pc = "exit"]
        ELSE [a2 EXCEPT !.is_connecting = FALSE, !.show_popup = FALSE,
                        !.pc = "back"]

-----------------------------------------------------------------------------
(* config/app_config.rs: the metadata store; widgets/server_creator.rs and *)
(* app.rs: the handlers that change both stores.                           *)

\* app_vault::Server::new(id, password)
Server(id, password) == [id |-> id, password |-> password]

\* A record of config.toml: name stands for name, ip, user, shell, port.
ConfigServer(id, name) == [id |-> id, name |-> name]

\* toml::to_string(config): one [[servers]] table per record.
config_to_string(list) ==
    toml_to_string([i \in 1..Len(list) |->
                       [id |-> list[i].id, password |-> list[i].name]])

\* read_config_from_path: an empty file is the default Config, any other
\* text is parsed.
read_config_from_path(config_str) ==
    IF config_str = <<>> THEN Done(<<>>)
    ELSE LET r == toml_from_str(config_str)
         IN  IF ~r.ok THEN Failed
             ELSE Done([i \in 1..Len(r.val) |->
                           ConfigServer(r.val[i].id, r.val[i].password)])

\* Config::save: fs::write succeeds, fails before the file is touched, or
\* fails after the file was truncated and written but for its last byte.
config_save(list, old_file, fs) ==
    LET config_str == config_to_string(list)
    IN  CASE fs = "ok" -> [file |-> config_str, result |-> Ok(<<>>)]
          [] fs = "short" ->
                [file |-> Take(config_str, Len(config_str) - 1),
                 result |-> Err("persist")]
          [] OTHER -> [file |-> old_file, result |-> Err("persist")]

\* Config::modify_server
config_modify_server(c, id, new_server, fs) ==
    LET pos == FindPos(c.servers, id)
    IN  IF pos # 0
        THEN LET list == [c.servers EXCEPT ![pos].name = new_server.name]
             IN  Returned(list, config_save(list, c.file, fs))
        ELSE NotFound(c)

\* Config::add_server
config_add_server(c, new_server, fs) ==
    LET list == Append(c.servers, new_server)
    IN  Returned(list, config_save(list, c.file, fs))

\* Config::delete_server
config_delete_server(c, id, fs) ==
    LET pos == FindPos(c.servers, id)
    IN  IF pos # 0
        THEN LET list == RemoveAt(c.servers, pos)
             IN  Returned(list, config_save(list, c.file, fs))
        ELSE NotFound(c)

\* Both stores after a handler, and what the handler returned.
Stores(c, v, result) ==
    [config |-> c.servers, config_file |-> c.file, servers |-> v.servers,
     file |-> v.file, result |-> result]

\* A save that adds a record to both stores whether the id is known or not.
creator_save_always_adds(c, v, id, name, plain, key, iv, cfs, vfs) ==
    LET c1 == config_add_server(c, ConfigServer(id, name), cfs)
    IN  IF c1.result.kind # "ok" THEN Stores(c1, v, c1.result)
        ELSE LET v1 == add_server(v, Server(id, encrypt_password(id, plain, key)),
                                  key, iv, vfs)
             IN  Stores(c1, v1, v1.result)

\* ServerCreator::run, Ctrl+S with valid input: config_server.id is the
\* new UUID, or server_id in Edit mode; a known id is modified in both
\* stores, a new one added to both, the config first.
creator_save(c, v, id, name, plain, key, iv, cfs, vfs) ==
    LET config_server == ConfigServer(id, name)
        vault_server == Server(id, encrypt_password(id, plain, key))
    IN  IF FindPos(c.servers, id) # 0
        THEN LET c1 == config_modify_server(c, id, config_server, cfs)
             IN  IF c1.result.kind # "ok" THEN Stores(c1, v, c1.result)
                 ELSE LET v1 == modify_server(v, id, vault_server, key, iv, vfs)
                      IN  Stores(c1, v1, v1.result)
        ELSE LET c1 == config_add_server(c, config_server, cfs)
             IN  IF c1.result.kind # "ok" THEN Stores(c1, v, c1.result)
                 ELSE LET v1 == add_server(v, vault_server, key, iv, vfs)
                      IN  Stores(c1, v1, v1.result)

\* App::run, 'd' with the row of server_id selected: the config record is
\* deleted first, then the row, then the vault record.
app_delete(c, v, server_id, key, iv, cfs, vfs) ==
    LET c1 == config_delete_server(c, server_id, cfs)
    IN  IF c1.result.kind # "ok" THEN Stores(c1, v, c1.result)
        ELSE LET v1 == delete_server(v, server_id, key, iv, vfs)
             IN  Stores(c1, v1, v1.result)

-----------------------------------------------------------------------------
(* State.                                                                  *)

VARIABLES
    \* the seal/open round trip (test_encryption_decryption_vault)
    origin_vault,     \* the vault handed to encrypt_vault
    seal_key,         \* the key of both calls
    encrypt_data,     \* the blob handed to decrypt_vault
    tamper,           \* what happened to the blob since encrypt_vault
    phase,            \* "init", "sealed", "open"
    dv,               \* the running decrypt_vault call
    \* the vault store (Vault, App)
    servers,          \* Vault.servers, in memory
    file,             \* the bytes of encrypted_data.bin
    encryption_key,   \* App.encryption_key
    last,             \* the last Vault call and what it returned
    errors,           \* how many Vault calls returned an error so far
    \* the process (main, init_vault)
    mainpc,           \* "init_vault", "returned", "run", "exit"; "lib" when
                      \* the vault is driven through the library instead
    exists,           \* encrypted_data.bin exists
    tries,            \* init_vault: passphrase and outcome of each attempt
    prompts,          \* init_vault: passphrase prompts made
    vault_buf,        \* init_vault: the bytes read at the last attempt
    init_result,      \* what init_vault returned
    ended,            \* how the process ended: "", "ok", "error", "exit1",
                      \* "panic"
    entered,          \* init_vault on first use: the two passphrases typed
    raw_mode,         \* the terminal is in raw mode
    \* one call of a session (SshChannel::call, PasswordSession::call)
    session,          \* "key" or "password"
    term_size,        \* what crossterm's size() returns now
    chan,             \* the call: locals, effects, result
    msgs,             \* the messages channel.wait() has yielded
    remote_closed,    \* channel.wait() yields None from now on
    late,             \* messages the remote sent on the channel after call
                      \* had returned and dropped it
    \* the Enter key of App::run, or a direct caller of connect
    app,              \* the handler: position, session, popup, counts
    \* the metadata store next to the vault (Config, ServerCreator, App)
    config,           \* Config.servers, in memory
    config_file,      \* the text of config.toml
    ui,               \* the last handler that changed the stores
    \* callers of the crypto functions
    history,          \* the calls made so far: function, arguments, result
    \* the screens of the interface (App, ServerList, ServerCreator)
    ssh_dir,          \* the key files that exist under ~/.ssh
    best,             \* the last find_best_key call: directory and result
    server_list,      \* the server list: rows, selection, last key
    server_creator    \* the server form: fields, cursor, selection

sealVars == <<origin_vault, seal_key, encrypt_data, tamper, phase, dv>>
vaultVars == <<servers, file, encryption_key, last, errors>>
mainVars == <<mainpc, exists, tries, prompts, vault_buf, init_result, ended,
              entered, raw_mode>>
copyVars == <<session, term_size, chan, msgs, remote_closed, late>>
appVars == <<app, config, config_file, ui>>
tuiVars == <<ssh_dir, best, server_list, server_creator>>
vars == <<sealVars, vaultVars, mainVars, copyVars, appVars, history, tuiVars>>

\* Passphrases typed at the prompt, and the keys derived from them.
Passphrases == {<<>>, <<5>>}
Keys == {derive_key_from_password(p) : p \in Passphrases}

\* Values generate_iv() may return.
GeneratedIVs == {Squeeze(0, IV_LEN), Squeeze(22136, IV_LEN)}

\* Vaults sealed in the round trip: empty, one record with an empty
\* password, records whose text needs escaping or is not ASCII, and two
\* records with the same content.
SealVaults ==
    { <<>>,
      <<Server(<<4>>, <<>>)>>,
      <<Server(<<4, 5>>, <<5, 6>>), Server(<<1, 2>>, <<0, 12, 8>>)>>,
      <<Server(<<3>>, <<7>>), Server(<<3>>, <<7>>)>> }

\* Bit patterns a changed byte differs by.
TamperMasks == {1, 8, 15}

Idle == [op |-> "none", id |-> <<>>, plain |-> <<>>, result |-> Pending,
         saved |-> FALSE]

SealIdle ==
    /\ origin_vault = <<>>
    /\ seal_key = <<>>
    /\ encrypt_data = <<>>
    /\ tamper = "none"
    /\ phase = "idle"
    /\ dv = DvStart(<<>>, <<>>)

VaultIdle ==
    /\ servers = <<>>
    /\ file = <<>>
    /\ encryption_key = <<>>
    /\ last = Idle
    /\ errors = 0

\* No call of a session is running.
CopyIdle ==
    /\ session = "none"
    /\ term_size = <<0, 0>>
    /\ chan = [CallStart(<<0, 0>>) EXCEPT !.pc = "idle"]
    /\ msgs = <<>>
    /\ remote_closed = FALSE
    /\ late = <<>>

\* No key pressed in the list, and an empty metadata store.
AppIdle ==
    /\ app = AppStart
    /\ config = <<>>
    /\ config_file = <<>>
    /\ ui = Idle
    /\ history = <<>>

\* No screen of the interface is in use.
TuiIdle ==
    /\ ssh_dir = {}
    /\ best = [called |-> FALSE, home |-> FALSE, dir |-> {},
               key |-> [kind |-> "none", err |-> "", val |-> ""]]
    /\ server_list = <<>>
    /\ server_creator = <<>>

\* No process of its own: the library is called directly.
MainIdle ==
    /\ mainpc = "lib"
    /\ exists = TRUE
    /\ tries = <<>>
    /\ prompts = 0
    /\ vault_buf = <<>>
    /\ init_result = Pending
    /\ ended = ""
    /\ entered = <<>>
    /\ raw_mode = FALSE

-----------------------------------------------------------------------------
(* The round trip: seal a vault, let the blob be changed on disk, open it. *)

SealInit ==
    /\ origin_vault \in SealVaults
    /\ seal_key \in Keys
    /\ encrypt_data = <<>>
    /\ tamper = "none"
    /\ phase = "init"
    /\ dv = DvStart(<<>>, <<>>)
    /\ VaultIdle
    /\ MainIdle
    /\ TuiIdle
    /\ CopyIdle
    /\ AppIdle

\* let encrypt_data = encrypt_vault(&origin_vault, &encryption_key)?
SealEncrypt ==
    /\ phase = "init"
    /\ \E iv \in GeneratedIVs :
           encrypt_data' = encrypt_vault(origin_vault, seal_key, iv)
    /\ phase' = "sealed"
    /\ UNCHANGED <<origin_vault, seal_key, tamper, dv, vaultVars, mainVars, copyVars, appVars, history, tuiVars>>

\* One byte of the blob is changed.
TamperByte ==
    /\ phase = "sealed"
    /\ tamper = "none"
    /\ \E p \in 1..Len(encrypt_data), m \in TamperMasks :
           encrypt_data' = [encrypt_data EXCEPT ![p] = Xor(@, m)]
    /\ tamper' = "byte"
    /\ UNCHANGED <<origin_vault, seal_key, phase, dv, vaultVars, mainVars, copyVars, appVars, history, tuiVars>>

\* The blob is cut short.
Truncate ==
    /\ phase = "sealed"
    /\ tamper = "none"
    /\ \E n \in 0..(Len(encrypt_data) - 1) :
           encrypt_data' = Take(encrypt_data, n)
    /\ tamper' = "cut"
    /\ UNCHANGED <<origin_vault, seal_key, phase, dv, vaultVars, mainVars, copyVars, appVars, history, tuiVars>>

\* decrypt_vault(&encrypt_data, &encryption_key) is entered.
DecryptBegin ==
    /\ phase = "sealed"
    /\ dv' = DvStart(encrypt_data, seal_key)
    /\ phase' = "open"
    /\ UNCHANGED <<origin_vault, seal_key, encrypt_data, tamper, vaultVars, mainVars, copyVars, appVars, history, tuiVars>>

\* The next step of decrypt_vault.
DecryptStep ==
    /\ phase = "open"
    /\ dv.pc # "done"
    /\ dv' = DvStep(dv)
    /\ UNCHANGED <<origin_vault, seal_key, encrypt_data, tamper, phase, vaultVars, mainVars, copyVars, appVars, history, tuiVars>>

SealNext ==
    \/ SealEncrypt
    \/ TamperByte
    \/ Truncate
    \/ DecryptBegin
    \/ DecryptStep

SpecSeal == SealInit /\ [][SealNext]_vars

-----------------------------------------------------------------------------
(* The vault store: the Vault behind an unlocked App.                      *)

\* The most records the vault holds.
MaxServers == 2

\* The caller gives up after this many calls returned an error (App::run
\* returns at the first one; a caller of the library may carry on).
MaxErrors == 2

\* The passphrase the vault was unlocked with.
UnlockPassphrases == {<<5>>}

\* The IVs generate_iv() returns to Vault::save while the store runs.
SaveIVs == {Squeeze(22136, IV_LEN)}

\* Ids Uuid::new_v4() may return (Server::new).
Uuids == {<<4, 5>>, <<5, 4>>, <<6>>}

\* Passwords typed into the form.
PlainPasswords == {<<>>, <<1, 12, 8>>}

IdsOf(list) == {list[i].id : i \in 1..Len(list)}

\* After init_vault on first use: an empty vault, sealed and written.
VaultInit ==
    /\ servers = <<>>
    /\ \E p \in UnlockPassphrases : encryption_key = derive_key_from_password(p)
    /\ \E iv \in GeneratedIVs : file = encrypt_vault(<<>>, encryption_key, iv)
    /\ last = Idle
    /\ errors = 0
    /\ SealIdle
    /\ MainIdle
    /\ TuiIdle
    /\ CopyIdle
    /\ AppIdle

Call(op, id, plain, r) ==
    /\ servers' = r.servers
    /\ file' = r.file
    /\ last' = [op |-> op, id |-> id, plain |-> plain, result |-> r.result,
                saved |-> r.saved]
    /\ errors' = IF r.result.kind = "err" THEN errors + 1 ELSE errors
    \* App::run and ServerCreator::run pass the error up with ?, and main
    \* returns it
    /\ mainpc' = IF mainpc = "run" /\ r.result.kind = "err" THEN "exit" ELSE mainpc
    /\ ended' = IF mainpc = "run" /\ r.result.kind = "err" THEN "error" ELSE ended
    /\ UNCHANGED <<encryption_key, sealVars, copyVars, appVars, history, exists, tries, prompts, vault_buf,
                   init_result, entered, raw_mode, tuiVars>>

\* ServerCreator::run, Ctrl+S on a new server: the id is a fresh UUID, the
\* stored password is encrypt_password(id, typed password).
AddServer ==
    /\ mainpc \in {"run", "lib"}
    /\ errors < MaxErrors
    /\ Len(servers) < MaxServers
    /\ \E id \in Uuids \ IdsOf(servers), plain \in PlainPasswords,
          iv \in SaveIVs, fs \in FsOutcomes :
           Call("add", id, plain,
                add_server([servers |-> servers, file |-> file],
                           Server(id, encrypt_password(id, plain, encryption_key)),
                           encryption_key, iv, fs))

\* Vault::modify_server with any id and a newly encrypted password.
ModifyServer ==
    /\ mainpc \in {"run", "lib"}
    /\ errors < MaxErrors
    /\ \E id \in Uuids, plain \in PlainPasswords,
          iv \in SaveIVs, fs \in FsOutcomes :
           Call("modify", id, plain,
                modify_server([servers |-> servers, file |-> file], id,
                              Server(id, encrypt_password(id, plain, encryption_key)),
                              encryption_key, iv, fs))

\* Vault::delete_server with any id.
DeleteServer ==
    /\ mainpc \in {"run", "lib"}
    /\ errors < MaxErrors
    /\ \E id \in Uuids, iv \in SaveIVs, fs \in FsOutcomes :
           Call("delete", id, <<>>,
                delete_server([servers |-> servers, file |-> file], id,
                              encryption_key, iv, fs))

VaultNext ==
    \/ AddServer
    \/ ModifyServer
    \/ DeleteServer

SpecVault == VaultInit /\ [][VaultNext]_vars

-----------------------------------------------------------------------------
(* The process: main unlocks the vault with init_vault, then runs the App. *)

\* A blob with a matching tag around any text.
SealText(text, key, iv) ==
    LET ct == aes_encrypt(key, iv, text) IN iv \o ct \o VaultMac(key, iv, ct)

StoredKey == derive_key_from_password(<<5>>)
StoredIV == Squeeze(0, IV_LEN)
StoredVault == <<Server(<<6>>, encrypt_password(<<6>>, <<1, 12, 8>>, StoredKey))>>

\* What encrypted_data.bin may hold when the process starts: a vault saved
\* under the passphrase <<5>>, the same with its last byte changed, cut to
\* 10 bytes, an empty file, and blobs with a matching tag whose plaintext is
\* not UTF-8 or not a vault.
StoredBlobs ==
    LET blob == encrypt_vault(StoredVault, StoredKey, StoredIV)
    IN  { blob,
          [blob EXCEPT ![Len(blob)] = Xor(@, 1)],
          Take(blob, 10),
          <<>>,
          SealText(<<12>>, StoredKey, StoredIV),
          SealText(<<5>>, StoredKey, StoredIV) }

MainInit ==
    /\ mainpc = "init_vault"
    /\ exists \in BOOLEAN
    /\ file \in (IF exists THEN StoredBlobs ELSE {<<>>})
    /\ servers = <<>>
    /\ encryption_key = <<>>
    /\ last = Idle
    /\ errors = 0
    /\ tries = <<>>
    /\ prompts = 0
    /\ vault_buf = <<>>
    /\ init_result = Pending
    /\ ended = ""
    /\ entered = <<>>
    /\ raw_mode = FALSE
    /\ SealIdle
    /\ CopyIdle
    /\ AppIdle
    /\ TuiIdle

\* init_vault, vault file present: one attempt of the loop.
InitVaultAttempt ==
    /\ mainpc = "init_vault"
    /\ exists
    /\ Len(tries) < LoopLast
    /\ \E io \in {"ok", "prompt", "open"}, passphrase \in Passphrases :
          LET a == init_vault_attempt(Len(tries) + 1, io, passphrase, file)
          IN  /\ tries' = Append(tries, [passphrase |-> passphrase,
                                         result |-> a.result])
              /\ prompts' = prompts + 1
              /\ vault_buf' = IF io = "ok" THEN file ELSE <<>>
              /\ encryption_key' = encryption_key \o a.key
              /\ init_result' = IF a.end = "returned" THEN a.result
                                ELSE init_result
              /\ mainpc' = CASE a.end = "loop" -> "init_vault"
                              [] a.end = "returned" -> "returned"
                              [] OTHER -> "exit"
              /\ ended' = IF a.end \in {"exit1", "panic"} THEN a.end ELSE ended
    /\ UNCHANGED <<servers, file, last, errors, exists, entered, raw_mode,
                   sealVars, copyVars, appVars, history, tuiVars>>

\* init_vault, no vault file yet.
FirstUse ==
    /\ mainpc = "init_vault"
    /\ ~exists
    /\ \E passphrase \in Passphrases, confirm_passphrase \in Passphrases,
          iv \in SaveIVs, fs \in FsOutcomes :
          LET f == init_vault_first_use(passphrase, confirm_passphrase, file,
                                        iv, fs)
          IN  /\ prompts' = prompts + 2
              /\ encryption_key' = encryption_key \o f.key
              /\ file' = f.file
              /\ exists' = (f.end = "returned" /\ fs # "denied")
              /\ init_result' = f.result
              /\ mainpc' = IF f.end = "returned" THEN "returned" ELSE "exit"
              /\ ended' = IF f.end = "exit1" THEN "exit1" ELSE ended
              /\ entered' = <<passphrase, confirm_passphrase>>
    /\ UNCHANGED <<servers, last, errors, tries, vault_buf, raw_mode,
                   sealVars, copyVars, appVars, history, tuiVars>>

\* main after init_vault returned.
MainAfterInit ==
    /\ mainpc = "returned"
    /\ \E setup \in Setups :
          LET pc == main_after_init(init_result, setup)
          IN  /\ mainpc' = pc
              /\ servers' = IF pc = "run" THEN init_result.val ELSE servers
              /\ ended' = IF pc = "exit" THEN "error" ELSE ended
              /\ raw_mode' = create_terminal(init_result, setup)
    /\ UNCHANGED <<file, encryption_key, last, errors, exists, tries, prompts,
                   vault_buf, init_result, entered, sealVars, copyVars,
                   appVars, history, tuiVars>>

\* App::run returns or panics, and main ends.
RunAppEnds ==
    /\ mainpc = "run"
    /\ \E outcome \in RunEnds, io \in {"ok", "err"} :
          /\ raw_mode' = run_app_ends(raw_mode, outcome, io)
          /\ ended' = run_app_status(outcome, io)
    /\ mainpc' = "exit"
    /\ UNCHANGED <<servers, file, encryption_key, last, errors, exists, tries,
                   prompts, vault_buf, init_result, entered, sealVars,
                   copyVars, appVars, history, tuiVars>>

MainNext ==
    \/ InitVaultAttempt
    \/ FirstUse
    \/ MainAfterInit
    \/ RunAppEnds
    \/ AddServer
    \/ ModifyServer
    \/ DeleteServer

SpecMain == MainInit /\ [][MainNext]_vars

-----------------------------------------------------------------------------
(* One call of a session: the copy loop between the terminal and the       *)
(* remote channel.                                                         *)

\* The most messages channel.wait() yields during the call.
MaxMsgs == 3
\* The most stdin.read calls that complete during the call.
MaxReads == 2

\* Terminal sizes size() may return.
Sizes == {<<80, 24>>, <<100, 30>>}
\* Payloads of ChannelMsg::Data.
Payloads == {<<1>>, <<2, 3>>}
\* Bytes a stdin.read returns.
Chunks == {<<4>>, <<5, 6>>}
ExitCodes == {0, 1}

Msg(type, data, exit_status) ==
    [type |-> type, data |-> data, exit_status |-> exit_status]

\* The messages a channel delivers: data, an exit status, and two of the
\* kinds the loop ignores.
Msgs ==
    {Msg("Data", d, 0) : d \in Payloads}
        \cup {Msg("ExitStatus", <<>>, code) : code \in ExitCodes}
        \cup {Msg("Eof", <<>>, 0), Msg("Close", <<>>, 0)}

\* What a stdin.read returns: bytes, Ok(0), or an error.
Reads ==
    {[kind |-> "bytes", bytes |-> b] : b \in Chunks}
        \cup {[kind |-> "eof", bytes |-> <<>>], [kind |-> "err", bytes |-> <<>>]}

\* call is entered: the channel is open and the terminal size captured.
CopyInit ==
    /\ session \in {"key", "password"}
    /\ term_size \in Sizes
    /\ chan = CallStart(term_size)
    /\ msgs = <<>>
    /\ remote_closed = FALSE
    /\ late = <<>>
    /\ SealIdle
    /\ VaultIdle
    /\ MainIdle
    /\ TuiIdle
    /\ AppIdle

\* call asks for the PTY.
RequestPty ==
    /\ chan.pc = "pty"
    /\ \E io \in {"ok", "err"} : chan' = request_pty(chan, io)
    /\ UNCHANGED <<session, term_size, msgs, remote_closed, late, sealVars,
                   vaultVars, mainVars, appVars, history, tuiVars>>

\* call starts the command.
Exec ==
    /\ chan.pc = "exec"
    /\ \E io \in {"ok", "err"} : chan' = exec(chan, io)
    /\ UNCHANGED <<session, term_size, msgs, remote_closed, late, sealVars,
                   vaultVars, mainVars, appVars, history, tuiVars>>

\* select! takes the stdin branch.
StdinRead ==
    /\ chan.pc = "loop"
    /\ stdin_polled(chan)
    /\ chan.reads < MaxReads
    /\ \E r \in Reads, io \in {"ok", "err"} : chan' = on_stdin(chan, r, io)
    /\ UNCHANGED <<session, term_size, msgs, remote_closed, late, sealVars,
                   vaultVars, mainVars, appVars, history, tuiVars>>

\* select! takes the channel branch: wait() yielded Some(msg).
ChannelMessage ==
    /\ chan.pc = "loop"
    /\ ~remote_closed
    /\ Len(msgs) < MaxMsgs
    /\ \E msg \in Msgs, io \in {"ok", "winch", "write"} :
          /\ chan' = on_msg(chan, session, msg, term_size, io)
          /\ msgs' = Append(msgs, msg)
    /\ UNCHANGED <<session, term_size, remote_closed, late, sealVars, vaultVars,
                   mainVars, appVars, history, tuiVars>>

\* The remote side closes the channel: wait() yields None from now on.
RemoteClose ==
    /\ chan.pc = "loop"
    /\ ~remote_closed
    /\ remote_closed' = TRUE
    /\ UNCHANGED <<session, term_size, chan, msgs, late, sealVars, vaultVars,
                   mainVars, appVars, history, tuiVars>>

\* select! with wait() yielding None and the stdin branch switched off:
\* no branch is left and there is no else branch.
SelectAllDisabled ==
    /\ chan.pc = "loop"
    /\ remote_closed
    /\ ~stdin_polled(chan)
    /\ chan' = Abort(chan)
    /\ UNCHANGED <<session, term_size, msgs, remote_closed, late, sealVars,
                   vaultVars, mainVars, appVars, history, tuiVars>>

\* The user resizes the terminal.
Resize ==
    /\ chan.pc \in {"pty", "exec", "loop"}
    /\ \E size \in Sizes \ {term_size} : term_size' = size
    /\ UNCHANGED <<session, chan, msgs, remote_closed, late, sealVars, vaultVars,
                   mainVars, appVars, history, tuiVars>>

\* The remote sends a message on the channel after call took the exit
\* status, left the loop and returned: nothing reads it.
LateMessage ==
    /\ chan.pc = "done"
    /\ chan.result.kind = "ok"
    /\ ~remote_closed
    /\ Len(msgs) + Len(late) < MaxMsgs
    /\ \E msg \in Msgs : late' = Append(late, msg)
    /\ UNCHANGED <<session, term_size, chan, msgs, remote_closed, sealVars,
                   vaultVars, mainVars, appVars, history, tuiVars>>

CopyNext ==
    \/ RequestPty
    \/ Exec
    \/ LateMessage
    \/ StdinRead
    \/ ChannelMessage
    \/ RemoteClose
    \/ SelectAllDisabled
    \/ Resize

SpecCopy == CopyInit /\ [][CopyNext]_vars

-----------------------------------------------------------------------------
(* A session from connect to close: the Enter key of App::run, and direct  *)
(* callers of connect.                                                     *)

SessionInit ==
    /\ AppIdle
    /\ CopyIdle
    /\ SealIdle
    /\ VaultIdle
    /\ MainIdle
    /\ TuiIdle

\* Enter in App::run, up to the match on the result of connect.
Enter ==
    /\ app.pc = "list"
    /\ \E password \in PlainPasswords, key \in {"found", "none", "locked"},
          io \in {"ok", "term"}, transport \in Transports, reply \in AuthReplies :
           app' = enter(app, password, key, io, transport, reply)
    /\ UNCHANGED <<config, config_file, ui, sealVars, vaultVars, mainVars,
                   copyVars, history, tuiVars>>

\* A direct call of KeySession::connect or PasswordSession::connect with
\* either AuthMethod.
Connect ==
    /\ app.pc = "list"
    /\ \E kind \in {"key", "password"}, auth \in AuthMethods,
          transport \in Transports, reply \in AuthReplies :
           app' = [app EXCEPT !.caller = "lib", !.kind = kind, !.auth = auth,
                              !.transport = transport, !.reply = reply,
                              !.conn = connect(kind, auth, transport, reply),
                              !.pc = "back"]
    /\ UNCHANGED <<config, config_file, ui, sealVars, vaultVars, mainVars,
                   copyVars, history, tuiVars>>

\* The Ok(mut ssh) arm up to the entry of call.
CallBegin ==
    /\ app.pc = "connected"
    /\ \E io \in {"ok", "term", "open"}, size \in Sizes :
          /\ app' = call_begin(app, io)
          /\ IF io = "term" THEN UNCHANGED <<session, term_size, chan>>
             ELSE /\ session' = app.kind
                  /\ term_size' = size
                  /\ chan' = IF io = "open" THEN Fail(CallStart(size))
                             ELSE CallStart(size)
    /\ UNCHANGED <<msgs, remote_closed, late, config, config_file, ui, sealVars,
                   vaultVars, mainVars, history, tuiVars>>

\* call is over: the match on its result.
CallReturns ==
    /\ app.pc = "call"
    /\ chan.pc = "done"
    /\ app' = call_returns(app, chan.result)
    /\ UNCHANGED <<config, config_file, ui, sealVars, vaultVars, mainVars,
                   copyVars, history, tuiVars>>

\* ssh.close() and the rest of the arm.
Close ==
    /\ app.pc = "close"
    /\ \E io \in {"ok", "close", "term"} : app' = close(app, io)
    /\ UNCHANGED <<config, config_file, ui, sealVars, vaultVars, mainVars,
                   copyVars, history, tuiVars>>

SessionNext ==
    \/ Enter
    \/ Connect
    \/ CallBegin
    \/ CallReturns
    \/ Close
    \/ RequestPty
    \/ Exec
    \/ LateMessage
    \/ StdinRead
    \/ ChannelMessage
    \/ RemoteClose
    \/ SelectAllDisabled
    \/ Resize

SpecSession == SessionInit /\ [][SessionNext]_vars

-----------------------------------------------------------------------------
(* The two stores behind the server list: config.toml and the vault, as    *)
(* ServerCreator::run and App::run change them.                            *)

\* Names typed into the form.
Names == {<<7>>, <<1, 7>>}

\* App::new after first use: an empty config.toml, an empty vault sealed
\* and written.
StoresInit ==
    /\ config = <<>>
    /\ config_file = <<>>
    /\ ui = Idle
    /\ app = AppStart
    /\ history = <<>>
    /\ servers = <<>>
    /\ \E p \in UnlockPassphrases : encryption_key = derive_key_from_password(p)
    /\ \E iv \in GeneratedIVs : file = encrypt_vault(<<>>, encryption_key, iv)
    /\ last = Idle
    /\ errors = 0
    /\ SealIdle
    /\ MainIdle
    /\ TuiIdle
    /\ CopyIdle

\* A handler returned r: an error leaves App::run and the process.
Handled(op, id, plain, r) ==
    /\ config' = r.config
    /\ config_file' = r.config_file
    /\ servers' = r.servers
    /\ file' = r.file
    /\ ui' = [op |-> op, id |-> id, plain |-> plain, result |-> r.result,
              saved |-> r.result.kind = "ok"]
    /\ UNCHANGED <<app, encryption_key, last, errors, sealVars, mainVars,
                   copyVars, history, tuiVars>>

\* 'n', the form, Ctrl+S: a server with a new UUID.
UiAdd ==
    /\ ui.result.kind # "err"
    /\ Len(config) < MaxServers
    /\ \E id \in Uuids \ (IdsOf(config) \cup IdsOf(servers)), name \in Names,
          plain \in PlainPasswords, iv \in SaveIVs,
          cfs \in FsOutcomes, vfs \in FsOutcomes :
           Handled("add", id, plain,
                   creator_save([servers |-> config, file |-> config_file],
                                [servers |-> servers, file |-> file],
                                id, name, plain, encryption_key, iv, cfs, vfs))

\* 'e' on a row, the form, Ctrl+S: the server keeps its id.
UiEdit ==
    /\ ui.result.kind # "err"
    /\ \E id \in IdsOf(config), name \in Names,
          plain \in PlainPasswords, iv \in SaveIVs,
          cfs \in FsOutcomes, vfs \in FsOutcomes :
           Handled("edit", id, plain,
                   creator_save([servers |-> config, file |-> config_file],
                                [servers |-> servers, file |-> file],
                                id, name, plain, encryption_key, iv, cfs, vfs))

\* 'd' on a row.
UiDelete ==
    /\ ui.result.kind # "err"
    /\ \E id \in IdsOf(config), iv \in SaveIVs,
          cfs \in FsOutcomes, vfs \in FsOutcomes :
           Handled("delete", id, <<>>,
                   app_delete([servers |-> config, file |-> config_file],
                              [servers |-> servers, file |-> file],
                              id, encryption_key, iv, cfs, vfs))

StoresNext ==
    \/ UiAdd
    \/ UiEdit
    \/ UiDelete

SpecStores == StoresInit /\ [][StoresNext]_vars

-----------------------------------------------------------------------------
(* Callers of the crypto functions: each call is kept with its arguments   *)
(* and its result.                                                         *)

\* The most calls kept.
MaxCalls == 4

\* Ids and passwords handed to encrypt_password, the vault handed to
\* encrypt_vault.
FieldIds == {<<4>>, <<6>>}
FieldPasswords == {<<1, 12, 8>>}
FieldVault == <<Server(<<4>>, <<7>>)>>

DeriveInit ==
    /\ history = <<>>
    /\ app = AppStart
    /\ config = <<>>
    /\ config_file = <<>>
    /\ ui = Idle
    /\ SealIdle
    /\ VaultIdle
    /\ MainIdle
    /\ TuiIdle
    /\ CopyIdle

Made(f, a, b, c, salt, out) ==
    [f |-> f, a |-> a, b |-> b, c |-> c, salt |-> salt, out |-> out]

\* A derive_key_from_password that salts with fresh random bytes.
DeriveKeyRandomSalt ==
    /\ Len(history) < MaxCalls
    /\ \E password \in Passphrases, salt \in GeneratedIVs :
           history' = Append(history,
                             Made("derive_key_from_password", password, <<>>,
                                  <<>>, salt, hash_raw(password, salt)))
    /\ UNCHANGED <<app, config, config_file, ui, sealVars, vaultVars, mainVars,
                   copyVars, tuiVars>>

\* derive_key_from_password(password): the salt is
\* derive_sha256_digest(password), the result that of argon2::hash_raw.
DeriveKey ==
    /\ Len(history) < MaxCalls
    /\ \E password \in Passphrases :
           LET salt == derive_sha256_digest(password)
           IN  history' = Append(history,
                                 Made("derive_key_from_password", password,
                                      <<>>, <<>>, salt, hash_raw(password, salt)))
    /\ UNCHANGED <<app, config, config_file, ui, sealVars, vaultVars, mainVars,
                   copyVars, tuiVars>>

\* An encrypt_password that takes its IV from generate_iv().
EncryptPasswordRandomIv ==
    /\ Len(history) < MaxCalls
    /\ \E id \in FieldIds, password \in FieldPasswords, key \in Keys,
          iv \in GeneratedIVs :
           history' = Append(history,
                             Made("encrypt_password", id, password, key, iv,
                                  hex_encode(aes_encrypt(key, iv, password))))
    /\ UNCHANGED <<app, config, config_file, ui, sealVars, vaultVars, mainVars,
                   copyVars, tuiVars>>

\* encrypt_password(id, password, key): the IV is derive_iv_from_id(id).
EncryptPassword ==
    /\ Len(history) < MaxCalls
    /\ \E id \in FieldIds, password \in FieldPasswords, key \in Keys :
           history' = Append(history,
                             Made("encrypt_password", id, password, key,
                                  derive_iv_from_id(id),
                                  encrypt_password(id, password, key)))
    /\ UNCHANGED <<app, config, config_file, ui, sealVars, vaultVars, mainVars,
                   copyVars, tuiVars>>

\* encrypt_vault(vault, key): the IV is what generate_iv() returns.
EncryptVault ==
    /\ Len(history) < MaxCalls
    /\ \E key \in Keys, iv \in GeneratedIVs :
           history' = Append(history,
                             Made("encrypt_vault", FieldVault, <<>>, key, iv,
                                  encrypt_vault(FieldVault, key, iv)))
    /\ UNCHANGED <<app, config, config_file, ui, sealVars, vaultVars, mainVars,
                   copyVars, tuiVars>>

DeriveNext ==
    \/ DeriveKey
    \/ EncryptPassword
    \/ EncryptVault

SpecDerive == DeriveInit /\ [][DeriveNext]_vars

-----------------------------------------------------------------------------
(* Properties of the sealed vault (SpecSeal).                              *)

Opened == phase = "open" /\ dv.pc = "done"

\* C1: opening an unchanged blob with the key it was sealed under returns
\* Ok with a vault equal to the one sealed, for every vault, key and IV.
C1_RoundTrip ==
    (Opened /\ tamper = "none") => dv.result = Ok(origin_vault)

\* C1 witness: a two-record vault whose text needs escaping came back.
C1_Witness ==
    /\ Opened /\ tamper = "none"
    /\ Len(origin_vault) = 2 /\ origin_vault[2].id = <<Ch.quote, Ch.bsl>>
    /\ dv.result.kind = "ok"

\* C2: after any single byte of a sealed blob was changed, decrypt_vault
\* under the sealing key ends with the HMAC error and returns no vault.
C2_TamperDetected ==
    (Opened /\ tamper = "byte") => dv.result = Err("hmac")

\* C2 witness: the changed byte lies in the IV.
C2_Witness ==
    /\ Opened /\ tamper = "byte"
    /\ Take(dv.blob, IV_LEN) \notin GeneratedIVs
    /\ dv.result.kind = "err"

\* The tag of the blob dv was given matches the HMAC over its IV and
\* ciphertext.
TagMatches ==
    /\ Len(dv.blob) >= IV_LEN + HMAC_LEN
    /\ LET rest == Drop(dv.blob, IV_LEN)
           ct == Take(rest, Len(rest) - HMAC_LEN)
       IN  VaultMac(dv.key, Take(dv.blob, IV_LEN), ct)
               = Drop(rest, Len(rest) - HMAC_LEN)

Calls(step) == \E i \in 1..Len(dv.trace) : dv.trace[i] = step

\* C3: decrypt_vault decrypts, converts and parses only after the tag was
\* checked and matched; on a mismatch none of these steps runs, nothing was
\* decrypted and the result carries no record.
C3_VerifyBeforeDecrypt ==
    /\ (Calls("aes_decrypt") \/ Calls("from_utf8") \/ Calls("from_str"))
           => (SubSeq(dv.trace, 1, 2) = <<"split", "verify">> /\ TagMatches)
    /\ (phase = "open" /\ Len(dv.blob) >= IV_LEN + HMAC_LEN /\ ~TagMatches)
           => /\ ~Calls("aes_decrypt") /\ ~Calls("from_utf8") /\ ~Calls("from_str")
              /\ dv.plain = <<>>
              /\ dv.result.val = <<>>
              /\ dv.result.kind # "ok"

\* C3 witness: a blob cut short, still 48 bytes or more, was refused at
\* the tag check.
C3_Witness ==
    /\ Opened /\ tamper = "cut"
    /\ dv.trace = <<"split", "verify">>
    /\ dv.result = Err("hmac")

\* C4 (as claimed): a blob shorter than 48 bytes is answered with a format
\* error value, with no HMAC check, no decryption and no abort.
C4_ShortBlobIsFormatError ==
    (Opened /\ Len(dv.blob) < IV_LEN + HMAC_LEN)
        => /\ dv.result.kind = "err"
           /\ dv.result.err = "format"
           /\ ~Calls("verify") /\ ~Calls("aes_decrypt")

-----------------------------------------------------------------------------
(* Properties of the vault store (SpecVault).                              *)

Mutation == last.op \in {"add", "modify", "delete"}

\* C5 (as claimed): a call whose save failed leaves the in-memory list as
\* it was before the call.
C5_FailedPersistRollsBack ==
    [][last'.result = Err("persist") => servers' = servers]_vars

\* C6: whenever the last add, modify or delete returned Ok, the file opens
\* under the key to exactly the in-memory list.
C6_MemoryMatchesDisk ==
    (Mutation /\ last.result.kind = "ok")
        => decrypt_vault(file, encryption_key) = Ok(servers)

\* C6 witness: a call succeeded after an earlier one had failed, and
\* records remain.
C6_Witness ==
    /\ Mutation /\ last.result.kind = "ok"
    /\ errors > 0
    /\ Len(servers) > 0

\* C7: the record stored by add (or set by modify) with
\* encrypt_password(id, password, key) resolves with decrypt_password under
\* the same id and key to the password typed.
C7_AddThenResolve ==
    /\ last.op = "add"
           => LET s == servers[Len(servers)]
              IN  /\ s.id = last.id
                  /\ decrypt_password(s.id, s.password, encryption_key)
                         = Ok(last.plain)
    /\ (last.op = "modify" /\ last.saved)
           => find_password(servers, last.id, encryption_key) = Ok(last.plain)

\* C7 witness: records with the empty and with a non-empty password were
\* added.
C7_Witness ==
    /\ last.op = "add" /\ last.plain = <<>>
    /\ Len(servers) = 2
    /\ servers[1].password # <<>>
    /\ servers[2].password = <<>>

\* C8: after delete_server(id) returned Ok no record has that id, and the
\* lookup of the connect path finds no password for it.
C8_DeleteThenResolve ==
    (last.op = "delete" /\ last.result.kind = "ok")
        => /\ \A i \in 1..Len(servers) : servers[i].id # last.id
           /\ find_password(servers, last.id, encryption_key) = None

\* C8 witness: a record was deleted and another one remains.
C8_Witness ==
    /\ last.op = "delete" /\ last.result.kind = "ok"
    /\ Len(servers) = 1

\* C9: modify_server keeps the number and order of the records and every
\* id; it changes no password but that of the first record with the id,
\* which becomes the new password.
C9_ModifyFrame ==
    [][last'.op = "modify"
        => /\ Len(servers') = Len(servers)
           /\ \A i \in 1..Len(servers) :
                /\ servers'[i].id = servers[i].id
                /\ i # FindPos(servers, last'.id)
                       => servers'[i].password = servers[i].password
                /\ i = FindPos(servers, last'.id)
                       => servers'[i].password
                            = encrypt_password(last'.id, last'.plain, encryption_key)
      ]_vars

\* C9 witness: one of two records was given another password.
C9_Witness ==
    /\ last.op = "modify" /\ last.result.kind = "ok"
    /\ Len(servers) = 2
    /\ servers[1].password # servers[2].password

\* C10: modify_server on an id no record has returns the not-found error,
\* leaves the list as it was and does not save or touch the file.
C10_ModifyAbsent ==
    [][(last'.op = "modify" /\ FindPos(servers, last'.id) = 0)
        => /\ last'.result = Err("notfound")
           /\ ~last'.saved
           /\ servers' = servers
           /\ file' = file
      ]_vars

\* C10 witness: modify_server returned not-found on a vault with records.
C10_Witness ==
    /\ last.op = "modify" /\ last.result = Err("notfound")
    /\ Len(servers) > 0

\* C11: delete_server on an id no record has returns the not-found error,
\* leaves the list as it was and does not save or touch the file.
C11_DeleteAbsent ==
    [][(last'.op = "delete" /\ FindPos(servers, last'.id) = 0)
        => /\ last'.result = Err("notfound")
           /\ ~last'.saved
           /\ servers' = servers
           /\ file' = file
      ]_vars

\* C11 witness: delete_server returned not-found on a vault with records.
C11_Witness ==
    /\ last.op = "delete" /\ last.result = Err("notfound")
    /\ Len(servers) > 0

-----------------------------------------------------------------------------
(* Properties of the process (SpecMain).                                   *)

\* The tag of blob matches the HMAC over its IV and ciphertext under key.
TagVerifies(blob, key) ==
    /\ Len(blob) >= IV_LEN + HMAC_LEN
    /\ LET rest == Drop(blob, IV_LEN)
           ct == Take(rest, Len(rest) - HMAC_LEN)
       IN  VaultMac(key, Take(blob, IV_LEN), ct) = Drop(rest, Len(rest) - HMAC_LEN)

LastTry == tries[Len(tries)]

\* init_vault verified the tag of the blob it read under the key it handed
\* to main, and returned the vault.
UnlockedByTag ==
    /\ Len(tries) > 0
    /\ LastTry.result.kind = "ok"
    /\ init_result = LastTry.result
    /\ encryption_key = derive_key_from_password(LastTry.passphrase)
    /\ TagVerifies(vault_buf, encryption_key)

\* init_vault created a fresh empty vault under the key it handed to main.
UnlockedByCreation ==
    /\ tries = <<>>
    /\ init_result = Ok(<<>>)
    /\ \E iv \in SaveIVs : file = encrypt_vault(<<>>, encryption_key, iv)

\* C12: the App is entered only after init_vault verified the tag of the
\* existing blob under the passphrase-derived key or created an empty
\* vault; every add, modify or delete happens while the App runs; and
\* before that the vault file is written only by first use, with no record
\* in it.
C12_MutationOnlyUnlocked ==
    [][/\ (mainpc' = "run" /\ mainpc # "run")
            => (UnlockedByTag \/ UnlockedByCreation)
       /\ last' # last => mainpc = "run"
       /\ (file' # file /\ mainpc # "run")
            => /\ mainpc = "init_vault" /\ ~exists
               /\ \E p \in Passphrases, iv \in SaveIVs :
                    LET blob == encrypt_vault(<<>>, derive_key_from_password(p), iv)
                    IN  file' \in {blob, Take(blob, IV_LEN)}
      ]_vars

\* C12 witness: a record was added after the vault was unlocked at the
\* second attempt.
C12_Witness ==
    /\ mainpc = "run"
    /\ last.op = "add" /\ last.result.kind = "ok"
    /\ Len(tries) = 2

C14_NoRetryOnOtherFailure ==
    (Len(tries) > 0 /\ LastTry.result.kind # "ok"
                    /\ LastTry.result # Err("hmac"))
        => /\ mainpc \in {"returned", "exit"}
           /\ init_result.kind = "err"
           /\ ended \in {"", "error"}
           /\ prompts = Len(tries)

\* The part of C14 that holds: an attempt that failed with an error other
\* than the HMAC error was the last prompt, and init_vault returned it.
C14_ErrorValuesNotRetried ==
    (Len(tries) > 0 /\ LastTry.result.kind = "err"
                    /\ LastTry.result # Err("hmac"))
        => /\ mainpc \in {"returned", "exit"}
           /\ init_result = LastTry.result
           /\ ended \in {"", "error"}
           /\ prompts = Len(tries)

\* C28 (as claimed): an attempt with the passphrase the vault was saved
\* under, on a file that is no longer the blob that was saved, does not end
\* like an attempt with a wrong passphrase on the intact file, which ends
\* in the HMAC error (message "Incorrect passphrase", another prompt or
\* exit 1).
C28_UnlockFailuresDistinct ==
    (Len(tries) > 0
        /\ derive_key_from_password(LastTry.passphrase) = StoredKey
        /\ vault_buf # encrypt_vault(StoredVault, StoredKey, StoredIV))
        => LastTry.result # Err("hmac")

-----------------------------------------------------------------------------
(* Properties of the copy loop (SpecCopy).                                 *)

LastMsg == msgs[Len(msgs)]

\* The payloads of the Data messages of a sequence, concatenated.
RECURSIVE DataOf(_)
DataOf(ms) ==
    IF ms = <<>> THEN <<>>
    ELSE (IF Head(ms).type = "Data" THEN Head(ms).data ELSE <<>>)
             \o DataOf(Tail(ms))

IsPrefix(a, b) == Len(a) <= Len(b) /\ a = Take(b, Len(a))

\* The call c has returned Ok(code).
ReturnedCode(c, code) == c.result.kind = "ok" /\ c.result.val = code

\* C15: call turns to Ok only in the step that takes an ExitStatus message
\* off the channel, and the code returned is that message's exit_status.
C15_OkOnlyByExitStatus ==
    [][(chan'.result.kind = "ok" /\ chan.result.kind # "ok")
        => /\ chan.pc = "loop"
           /\ Len(msgs') = Len(msgs) + 1
           /\ msgs'[Len(msgs')].type = "ExitStatus"
           /\ ReturnedCode(chan', msgs'[Len(msgs')].exit_status)
      ]_vars

\* C15 witness: exit code 1 was returned after data, eof and local input.
C15_Witness ==
    /\ ReturnedCode(chan, 1)
    /\ Len(msgs) = 3
    /\ msgs[1].type = "Data" /\ msgs[2].type = "Eof"
    /\ chan.reads > 0

\* C16 (as claimed): once the event stream of the channel has ended with no
\* ExitStatus delivered, a call that is over has returned an error.
C16_RemoteCloseIsError ==
    (remote_closed /\ chan.pc = "done") => chan.result.kind = "err"

\* C17: a call that returns a code has called channel.eof() exactly once;
\* the step that closes stdin is the first to call it; and once stdin is
\* closed no stdin.read completes.
C17_EofOnce ==
    [][/\ chan'.result.kind = "ok" => chan'.eofs = 1
       /\ (chan'.stdin_closed /\ ~chan.stdin_closed)
            => (chan.eofs = 0 /\ chan'.eofs = 1)
       /\ chan.stdin_closed
            => (chan'.reads = chan.reads /\ chan'.read = chan.read
                /\ chan'.eofs = chan.eofs)
      ]_vars

\* C17 witness: stdin reached EOF, then data came, then the exit status.
C17_Witness ==
    /\ chan.result.kind = "ok"
    /\ chan.stdin_closed
    /\ chan.eofs = 1
    /\ chan.out # <<>>

\* C18: what was sent to the channel is a prefix of what was read from
\* stdin, and what was written to stdout a prefix of the Data payloads
\* received, both in order; while no operation has failed they are equal
\* whenever the loop takes its next event and when call returns.
C18_OrderPreserved ==
    /\ IsPrefix(chan.sent, chan.read)
    /\ IsPrefix(chan.out, DataOf(msgs))
    /\ ~chan.failed => (chan.sent = chan.read /\ chan.out = DataOf(msgs))

\* C18 witness: two reads and two payloads went through, interleaved.
C18_Witness ==
    /\ chan.pc = "loop"
    /\ chan.sent = <<5, 6, 4>>
    /\ chan.out = <<2, 3, 1>>

\* C19 (as claimed): in key and password sessions alike, a Data message
\* arriving while the terminal size differs from the last size sent makes
\* the call send a window-change with the new size before it writes the
\* data, and remember that size.
C19_ResizeOnData ==
    [][(Len(msgs') = Len(msgs) + 1
            /\ msgs'[Len(msgs')].type = "Data"
            /\ term_size # chan.last_size)
        => /\ chan'.winch = Append(chan.winch,
                                   [size |-> term_size, at |-> Len(chan.out)])
           /\ ~chan'.failed => chan'.last_size = term_size
      ]_vars

\* The part of C19 that holds: key sessions.
C19_ResizeOnDataKey ==
    [][(session = "key"
            /\ Len(msgs') = Len(msgs) + 1
            /\ msgs'[Len(msgs')].type = "Data"
            /\ term_size # chan.last_size)
        => /\ chan'.winch = Append(chan.winch,
                                   [size |-> term_size, at |-> Len(chan.out)])
           /\ ~chan'.failed => chan'.last_size = term_size
      ]_vars

\* The channel delivered Data messages only and then an ExitStatus, and
\* nothing was read from stdin.
Scripted ==
    /\ msgs # <<>>
    /\ LastMsg.type = "ExitStatus"
    /\ \A i \in 1..(Len(msgs) - 1) : msgs[i].type = "Data"
    /\ chan.reads = 0

\* C20: after Data(d1), .., Data(dn), ExitStatus(c) and no local input, a
\* call none of whose operations failed has returned c and has written
\* d1 .. dn, and nothing else, to stdout; a failed one returned the error.
C20_ScriptedResult ==
    Scripted =>
        /\ chan.pc = "done"
        /\ ~chan.failed
             => (ReturnedCode(chan, LastMsg.exit_status)
                 /\ chan.out = DataOf(msgs))
        /\ chan.failed => chan.result = Err("io")

\* C20 witness: Data(1), Data(2 3), ExitStatus(1) gave 1 2 3 and code 1.
C20_Witness ==
    /\ Scripted
    /\ Len(msgs) = 3
    /\ ReturnedCode(chan, 1)
    /\ chan.out = <<1, 2, 3>>

\* C21 (as claimed): when call has returned an exit code, every Data payload
\* the remote sent on the channel for the command, before or after the exit
\* status, has been written in full to stdout.
C21_NoRemoteByteLost ==
    chan.result.kind = "ok" => chan.out = DataOf(msgs \o late)

\* The part of C21 that holds: the payloads delivered before the exit status
\* are on stdout when call returns a code.
C21_TakenBytesWritten ==
    chan.result.kind = "ok" => chan.out = DataOf(msgs)

\* C29: request_pty is called once, first, with the size captured for the
\* channel; exec is called once, after it; input is forwarded and output
\* written only after exec; and a failed request_pty or exec ends the call
\* with the error, no event of the loop taken.
C29_StartOrder ==
    [][/\ chan'.pty # chan.pty
            => /\ chan.pc = "pty" /\ chan.pty = <<>> /\ chan.execs = 0
               /\ chan'.pty = <<chan.last_size>>
       /\ chan'.execs # chan.execs
            => /\ chan.pc = "exec" /\ Len(chan.pty) = 1 /\ chan.execs = 0
               /\ chan'.execs = 1
               /\ chan.reads = 0 /\ msgs = <<>> /\ chan.out = <<>>
               /\ chan.sent = <<>> /\ chan.eofs = 0
       /\ (chan'.reads # chan.reads \/ msgs' # msgs \/ chan'.out # chan.out
             \/ chan'.sent # chan.sent \/ chan'.eofs # chan.eofs)
            => (chan.pc = "loop" /\ chan.execs = 1 /\ Len(chan.pty) = 1)
       /\ (chan.pc \in {"pty", "exec"} /\ chan'.failed)
            => /\ chan'.pc = "done" /\ chan'.result = Err("io")
               /\ chan'.reads = 0 /\ msgs' = <<>> /\ chan'.out = <<>>
               /\ chan'.sent = <<>>
      ]_vars

\* C29 witness: the terminal was resized after the size was captured, the
\* PTY was asked for with the captured size, and the call went on to copy
\* in both directions and return a code.
C29_Witness ==
    /\ chan.result.kind = "ok"
    /\ Len(chan.pty) = 1 /\ chan.execs = 1
    /\ chan.winch = <<>> /\ chan.pty[1] # term_size
    /\ chan.out # <<>> /\ chan.sent # <<>>

\* C30: the step that closes stdin leaves the call in the loop unless
\* channel.eof() fails; with stdin closed, a Data message is written in
\* full unless an operation of that step fails, and an ExitStatus message
\* ends the call with its code.
C30_HalfClose ==
    [][/\ (chan'.stdin_closed /\ ~chan.stdin_closed /\ ~chan'.failed)
            => (chan'.pc = "loop" /\ chan'.result.kind = "pending")
       /\ (chan.stdin_closed /\ Len(msgs') = Len(msgs) + 1)
            => /\ (msgs'[Len(msgs')].type = "Data" /\ ~chan'.failed)
                    => /\ chan'.out = chan.out \o msgs'[Len(msgs')].data
                       /\ chan'.pc = "loop"
               /\ msgs'[Len(msgs')].type = "ExitStatus"
                    => /\ chan'.pc = "done"
                       /\ ReturnedCode(chan', msgs'[Len(msgs')].exit_status)
                       /\ chan'.eofs = chan.eofs
      ]_vars

\* C30 witness: stdin reached EOF first; two payloads and the exit status 1
\* came afterwards.
C30_Witness ==
    /\ ReturnedCode(chan, 1)
    /\ chan.stdin_closed /\ chan.reads = 1
    /\ Len(msgs) = 3
    /\ chan.out = <<2, 3, 1>>

-----------------------------------------------------------------------------
(* Properties of a session (SpecSession).                                  *)

\* C22 (as claimed): a connect whose transport connection succeeded has
\* sent exactly one authentication request, whichever session type and
\* AuthMethod it was called with.
C22_AuthExactlyOnce ==
    app.conn.transports = 1 => app.conn.auths = 1

\* The part of C22 that holds: no connect sends more than one request, and
\* the connects App::run makes send exactly one.
C22_AuthOnceInApp ==
    /\ app.conn.auths <= 1
    /\ (app.caller = "app" /\ app.conn.transports = 1) => app.conn.auths = 1

\* The messages of a server-rejected authentication.
AuthRejected == {PasswordAuthFailed, PublicKeyAuthFailed}

\* connect was called with the AuthMethod of its session type.
AuthFits == (app.kind = "key") <=> (app.auth = "Key")

\* C23: a connect that met a transport failure, and one whose
\* authentication the server rejected, returned an error and no session;
\* the first error is never one of the rejection messages, the second
\* always is; and in App::run a failed connect leaves the error popup
\* with the message of the error on screen, with no call and no close.
C23_ConnectFails ==
    /\ (app.conn.result.kind # "pending" /\ AuthFits)
         => /\ app.transport = "refused"
                 => /\ app.conn.result.kind = "err"
                    /\ app.conn.result.val = <<>>
                    /\ app.conn.result.err \notin AuthRejected
            /\ (app.transport = "ok" /\ app.reply = "reject")
                 => /\ app.conn.result.kind = "err"
                    /\ app.conn.result.val = <<>>
                    /\ app.conn.result.err \in AuthRejected
    /\ (app.caller = "app" /\ app.conn.result.kind = "err")
         => /\ app.pc = "back"
            /\ app.show_popup
            /\ app.popup_info = [message |-> app.conn.result.err,
                                 popup_type |-> "Error"]
            /\ app.calls = 0 /\ app.closes = 0
            /\ chan.pc = "idle"

\* C23 witness: App::run shows the rejection of a password.
C23_Witness ==
    /\ app.caller = "app"
    /\ app.reply = "reject"
    /\ app.show_popup
    /\ app.popup_info.message = PasswordAuthFailed

\* call returned to the handler, with a code or an error.
CallReturned == app.call_result.kind \in {"ok", "err"}

\* C24: close is invoked at most once and only after call returned; when
\* call has returned, a code or an error, the handler is about to invoke
\* close, and once it is over close was invoked exactly once.
C24_CloseAfterCall ==
    /\ app.closes <= 1 /\ app.calls <= 1
    /\ app.closes = 1 => (CallReturned /\ app.calls = 1)
    /\ CallReturned
         => \/ (app.pc = "close" /\ app.closes = 0)
            \/ (app.pc \in {"back", "exit"} /\ app.closes = 1)

\* C24 witness: call returned an error after remote output was written,
\* and close was invoked.
C24_Witness ==
    /\ app.call_result.kind = "err"
    /\ chan.out # <<>>
    /\ app.closes = 1
    /\ app.pc = "back"

-----------------------------------------------------------------------------
(* Properties of the two stores (SpecStores).                              *)

\* The ids config.toml holds, and the ids encrypted_data.bin holds under
\* the key; a file that cannot be read holds none.
ConfigFileIds ==
    LET r == read_config_from_path(config_file)
    IN  IF r.ok THEN IdsOf(r.val) ELSE {}
VaultFileIds ==
    LET r == decrypt_vault(file, encryption_key)
    IN  IF r.kind = "ok" THEN IdsOf(r.val) ELSE {}

\* C25 (as claimed): after every add, edit and delete, also one in which a
\* file write failed, the in-memory Config and the in-memory Vault hold the
\* same ids, and so do config.toml and encrypted_data.bin.
C25_StoresInStep ==
    /\ IdsOf(config) = IdsOf(servers)
    /\ ConfigFileIds = VaultFileIds

\* The part of C25 that holds: the stores are in step as long as every
\* handler returned Ok.
C25_InStepWhileOk ==
    ui.result.kind # "err"
        => /\ IdsOf(config) = IdsOf(servers)
           /\ ConfigFileIds = VaultFileIds
           /\ ConfigFileIds = IdsOf(config)

-----------------------------------------------------------------------------
(* Properties of the crypto functions (SpecDerive).                        *)

SameArgs(x, y) == x.f = y.f /\ x.a = y.a /\ x.b = y.b /\ x.c = y.c

\* C26: every derive_key_from_password call returned Ok with a 32-byte
\* key, the empty passphrase too; its salt was the first 16 bytes of the
\* digest of the passphrase; and two calls with the same passphrase
\* returned the same key.
C26_KeyDeterministic ==
    \A i \in 1..Len(history) :
        history[i].f = "derive_key_from_password"
            => /\ history[i].out.kind = "ok"
               /\ Len(history[i].out.val) = KEY_LEN
               /\ history[i].out.val = derive_key_from_password(history[i].a)
               /\ history[i].salt = Take(Sha256(history[i].a), SALT_LEN)
               /\ \A j \in 1..Len(history) :
                      SameArgs(history[i], history[j])
                          => history[j].out.val = history[i].out.val

\* C26 witness: the empty passphrase was given twice, another in between.
C26_Witness ==
    /\ Len(history) = 3
    /\ history[1].f = "derive_key_from_password" /\ history[1].a = <<>>
    /\ history[2].f = "derive_key_from_password" /\ history[2].a # <<>>
    /\ history[3].f = "derive_key_from_password" /\ history[3].a = <<>>
    /\ history[1].out.val # history[2].out.val

\* C27: the IV of every encrypt_password call was the first 16 bytes of
\* the digest of its id, and two calls with the same id, password and key
\* returned the same hex string.
C27_FieldDeterministic ==
    \A i \in 1..Len(history) :
        history[i].f = "encrypt_password"
            => /\ history[i].salt = Take(Sha256(history[i].a), IV_LEN)
               /\ \A j \in 1..Len(history) :
                      SameArgs(history[i], history[j])
                          => history[j].out = history[i].out

\* C27 witness: two encrypt_password calls with the same arguments, and
\* two encrypt_vault calls on the same vault and key that returned
\* different blobs.
C27_Witness ==
    /\ Len(history) = 4
    /\ history[1].f = "encrypt_vault" /\ history[2].f = "encrypt_vault"
    /\ SameArgs(history[1], history[2])
    /\ history[1].out # history[2].out
    /\ history[3].f = "encrypt_password" /\ history[4].f = "encrypt_password"
    /\ SameArgs(history[3], history[4])
    /\ history[3].out = history[4].out

\* No two records of the list have the same id.
DistinctIds(list) ==
    \A i, j \in 1..Len(list) : list[i].id = list[j].id => i = j

\* C31: the ids of the Config are pairwise distinct and so are the ids of
\* the Vault, after every add, edit and delete, failed ones included; and
\* an edit leaves the number of records of both as it was.
C31_IdsUnique ==
    /\ DistinctIds(config)
    /\ DistinctIds(servers)
    /\ ui.op = "edit" => (Len(config) = Len(servers) \/ ui.result.kind = "err")
    /\ Len(config) <= MaxServers /\ Len(servers) <= MaxServers

\* C31 witness: two servers were added and one of them was edited.
C31_Witness ==
    /\ ui.op = "edit" /\ ui.result.kind = "ok"
    /\ Len(config) = 2 /\ Len(servers) = 2
    /\ config[1].id # config[2].id

-----------------------------------------------------------------------------
(* The terminal at the end of the process.                                 *)

\* C34 (as claimed): whenever the process has ended, raw mode is off.
C34_RawModeOffAtExit == mainpc = "exit" => ~raw_mode

\* The part of C34 that holds: after a quit whose restore_terminal
\* succeeded, and after the exit(1) of init_vault, raw mode is off.
C34_RestoredOnQuit ==
    (mainpc = "exit" /\ ended \in {"ok", "exit1"}) => ~raw_mode

-----------------------------------------------------------------------------
(* The first start: no vault file yet.                                     *)

\* C38: on first use the passphrase is asked twice and at no other time.
\* When the two entries are equal, the empty one included, the key derived
\* from them becomes the encryption key and init_vault returns; unless the
\* write failed it returns the empty vault, the file then exists and opens
\* under that key to the empty vault, and the App starts with no server.
\* When they differ the process exits with status 1, and there is no vault
\* file and no key.
C38_FirstUse ==
    entered # <<>> =>
        /\ prompts = 2 /\ tries = <<>>
        /\ IF entered[1] = entered[2]
           THEN LET key == derive_key_from_password(entered[1])
                IN  /\ encryption_key = key
                    /\ ended # "exit1"
                    /\ init_result.kind \in {"ok", "err"}
                    /\ init_result.kind = "err" => init_result = Err("persist")
                    /\ init_result.kind = "ok" =>
                          /\ init_result.val = <<>>
                          /\ last = Idle =>
                                /\ exists
                                /\ decrypt_vault(file, key) = Ok(<<>>)
                                /\ mainpc = "run" => servers = <<>>
           ELSE /\ mainpc = "exit" /\ ended = "exit1"
                /\ init_result = Pending
                /\ ~exists /\ file = <<>>
                /\ encryption_key = <<>>

\* C38 witness: the empty passphrase typed twice, and the App running on
\* the empty vault.
C38_Witness ==
    /\ entered = << <<>>, <<>> >>
    /\ mainpc = "run" /\ servers = <<>> /\ last = Idle
    /\ exists /\ decrypt_vault(file, derive_key_from_password(<<>>)) = Ok(<<>>)

\* Two entries that differ, and the process ended.
C38_Mismatch == entered # <<>> /\ entered[1] # entered[2] /\ mainpc = "exit"

-----------------------------------------------------------------------------
(* The Enter key: which session is opened, and what is shown afterwards.   *)

\* C33: after Enter on a server whose password decrypted to the empty
\* string, KeySession::connect was called with AuthMethod::Key, and only if
\* a key file was found and loaded; otherwise no connection was attempted
\* and an error popup is up. After Enter on a server with a non-empty
\* password, PasswordSession::connect was called once with
\* AuthMethod::Password carrying that password.
C33_AuthByStoredPassword ==
    (app.caller = "app" /\ app.pc \in {"back", "connected"}
                        /\ app.calls = 0) =>
        IF app.password = <<>>
        THEN IF app.key_path = "found"
             THEN /\ app.kind = "key" /\ app.auth = "Key"
                  /\ app.conn = key_connect("Key", app.transport, app.reply)
                  /\ app.conn.result.kind \in {"ok", "err"}
             ELSE /\ app.key_path \in {"none", "locked"}
                  /\ app.conn = Conn(Pending, 0, 0)
                  /\ app.kind = ""
                  /\ app.pc = "back"
                  /\ app.show_popup /\ app.popup_info.popup_type = "Error"
        ELSE /\ app.kind = "password" /\ app.auth = "Password"
             /\ app.secret = app.password
             /\ app.conn = password_connect("Password", app.transport, app.reply)
             /\ app.conn.result.kind \in {"ok", "err"}

\* C33 witness: an empty password and a key file, and the key session
\* authenticated.
C33_Witness ==
    /\ app.caller = "app" /\ app.pc = "connected"
    /\ app.password = <<>> /\ app.key_path = "found"
    /\ app.kind = "key" /\ app.conn.result.kind = "ok" /\ app.conn.auths = 1

\* An empty password and no key file: the handler is back at the list.
C33_NoKey ==
    /\ app.caller = "app" /\ app.pc = "back"
    /\ app.password = <<>> /\ app.key_path = "none"

\* What the handler was told after connect had succeeded: the error of
\* close if close failed, else the error of call.
SessionError ==
    IF app.close_result.kind = "err" THEN app.close_result.err
    ELSE app.call_result.err

SessionFailed ==
    /\ app.caller = "app" /\ app.pc = "back"
    /\ app.conn.result.kind = "ok"
    /\ (app.call_result.kind = "err" \/ app.close_result.kind = "err")

\* C35 (as claimed): when the handler is back at the list after call or
\* close returned an error, the error popup with that error is visible.
C35_FailedSessionReported ==
    SessionFailed =>
        /\ app.show_popup
        /\ app.popup_info = [message |-> SessionError, popup_type |-> "Error"]

\* The part of C35 that holds: popup_info carries the error, and the
\* connecting flag is down.
C35_PopupInfoSet ==
    SessionFailed =>
        /\ app.popup_info = [message |-> SessionError, popup_type |-> "Error"]
        /\ ~app.is_connecting

-----------------------------------------------------------------------------
(* app.rs: find_best_key, the private key offered to a server without a    *)
(* stored password.                                                        *)

\* Option<PathBuf>: the path is kept as the file name under ~/.ssh.
NoPath == [kind |-> "none", err |-> "", val |-> ""]
SomePath(key_name) == [kind |-> "some", err |-> "", val |-> key_name]

key_priorities ==
    <<"id_ecdsa", "id_ecdsa_384", "id_ecdsa_521", "id_ed25519", "id_rsa">>

\* A loop that keeps the last key file it meets.
RECURSIVE find_last_from(_, _, _)
find_last_from(dir, i, found) ==
    IF i > Len(key_priorities) THEN found
    ELSE find_last_from(dir, i + 1,
                        IF key_priorities[i] \in dir
                        THEN SomePath(key_priorities[i]) ELSE found)

find_best_key_last(home, dir) ==
    IF ~home THEN NoPath ELSE find_last_from(dir, 1, NoPath)

\* for key_name in key_priorities.iter(): the first key_path that exists.
RECURSIVE find_from(_, _)
find_from(dir, i) ==
    IF i > Len(key_priorities) THEN NoPath
    ELSE IF key_priorities[i] \in dir THEN SomePath(key_priorities[i])
    ELSE find_from(dir, i + 1)

\* find_best_key: dirs::home_dir()? gives up without a home directory;
\* dir is the set of names that exist under ~/.ssh.
find_best_key(home, dir) ==
    IF ~home THEN NoPath ELSE find_from(dir, 1)

\* Names that may exist under ~/.ssh: the five key files, a key type that
\* is not looked for, and known_hosts.
SshNames ==
    {"id_ecdsa", "id_ecdsa_384", "id_ecdsa_521", "id_ed25519", "id_rsa",
     "id_dsa", "known_hosts"}

\* test_find_best_key: an empty ~/.ssh under a temporary home.
KeysInit ==
    /\ ssh_dir = {}
    /\ best = [called |-> FALSE, home |-> FALSE, dir |-> {}, key |-> NoPath]
    /\ server_list = <<>>
    /\ server_creator = <<>>
    /\ SealIdle
    /\ VaultIdle
    /\ MainIdle
    /\ CopyIdle
    /\ AppIdle

\* File::create(ssh_dir.join(name))
CreateKeyFile ==
    /\ \E key_name \in SshNames \ ssh_dir : ssh_dir' = ssh_dir \cup {key_name}
    /\ UNCHANGED <<best, server_list, server_creator, sealVars, vaultVars,
                   mainVars, copyVars, appVars, history>>

\* A file under ~/.ssh is removed.
RemoveKeyFile ==
    /\ \E key_name \in ssh_dir : ssh_dir' = ssh_dir \ {key_name}
    /\ UNCHANGED <<best, server_list, server_creator, sealVars, vaultVars,
                   mainVars, copyVars, appVars, history>>

\* find_best_key(), with or without a home directory.
FindBestKey ==
    /\ \E home \in BOOLEAN :
          best' = [called |-> TRUE, home |-> home, dir |-> ssh_dir,
                   key |-> find_best_key(home, ssh_dir)]
    /\ UNCHANGED <<ssh_dir, server_list, server_creator, sealVars, vaultVars,
                   mainVars, copyVars, appVars, history>>

KeysNext ==
    \/ CreateKeyFile
    \/ RemoveKeyFile
    \/ FindBestKey

SpecKeys == KeysInit /\ [][KeysNext]_vars

\* The position of a key file in the priority order.
Priority(key_name) ==
    CHOOSE i \in 1..Len(key_priorities) : key_priorities[i] = key_name

KeyFiles == {key_priorities[i] : i \in 1..Len(key_priorities)}

\* C32: with a home directory, find_best_key returns None exactly when
\* none of the five key files exists under ~/.ssh; otherwise it returns a
\* key file that exists and that no existing key file precedes in the order
\* id_ecdsa, id_ecdsa_384, id_ecdsa_521, id_ed25519, id_rsa. Other files
\* under ~/.ssh make no difference.
C32_FirstByPriority ==
    (best.called /\ best.home) =>
        /\ best.key.kind = "none" <=> best.dir \cap KeyFiles = {}
        /\ best.key.kind # "none" =>
              /\ best.key.kind = "some"
              /\ best.key.val \in best.dir \cap KeyFiles
              /\ \A other \in best.dir \cap KeyFiles :
                     Priority(best.key.val) <= Priority(other)
              /\ best.key = find_best_key(TRUE, best.dir \cap KeyFiles)

\* C32 witness: id_rsa, id_ed25519 and id_ecdsa exist, as at the end of
\* test_find_best_key, and id_ecdsa is returned.
C32_Witness ==
    /\ best.called /\ best.home
    /\ best.dir = {"id_rsa", "id_ed25519", "id_ecdsa"}
    /\ best.key.kind = "some" /\ best.key.val = "id_ecdsa"

-----------------------------------------------------------------------------
(* app.rs: the server list, one iteration of App::run per key.             *)

\* ListState::selected == None
NoIndex == -1

\* The width of usize, in bits.
USIZE_BITS == 4
USIZE_MAX == 2 ^ USIZE_BITS - 1

\* Rows of the terminal: the inline viewport takes at most 10 of them, and
\* header and footer take one each.
ViewportRows == 10
Rows == {2, ViewportRows}

\* ServerList::with_items(items), App::new; build is how the binary was
\* compiled ("debug": overflow checks, "release": wrapping), rows the
\* height of the terminal.
ListStart(items, rows, build) ==
    [items |-> items, selected |-> NoIndex, show_popup |-> FALSE,
     rows |-> rows, build |-> build, pc |-> "run", key |-> "",
     skipped |-> FALSE]

\* StatefulWidget::render(&items, area, buf, &mut state) of ratatui's List:
\* nothing is done for an empty area; else the selection is dropped for an
\* empty list and moved to the last row when it is past the end.
list_render(l) ==
    IF l.rows <= 2 THEN [l EXCEPT !.skipped = TRUE]
    ELSE IF l.items = <<>> THEN [l EXCEPT !.selected = NoIndex]
    ELSE IF l.selected # NoIndex /\ l.selected >= Len(l.items)
    THEN [l EXCEPT !.selected = Len(l.items) - 1]
    ELSE l

\* App::draw: the popup if there is one, else the App with its list.
draw(l) == IF l.show_popup THEN l ELSE list_render(l)

ListPanic(l, what) == [l EXCEPT !.pc = what]

\* self.items.len() - 1 on usize
len_minus_1(l) ==
    IF Len(l.items) = 0
    THEN (IF l.build = "debug" THEN NoIndex ELSE USIZE_MAX)
    ELSE Len(l.items) - 1

\* ServerList::next
next(l) ==
    IF l.selected = NoIndex THEN [l EXCEPT !.selected = 0]
    ELSE IF len_minus_1(l) = NoIndex THEN ListPanic(l, "overflow")
    ELSE IF l.selected >= len_minus_1(l) THEN [l EXCEPT !.selected = 0]
    ELSE [l EXCEPT !.selected = l.selected + 1]

\* ServerList::previous
previous(l) ==
    IF l.selected = NoIndex THEN [l EXCEPT !.selected = 0]
    ELSE IF l.selected = 0
    THEN (IF len_minus_1(l) = NoIndex THEN ListPanic(l, "overflow")
          ELSE [l EXCEPT !.selected = len_minus_1(l)])
    ELSE [l EXCEPT !.selected = l.selected - 1]

\* &self.server_list.items[selected_index]
InBounds(l) == l.selected < Len(l.items)

\* refresh_serverlist: the rows of the config, and a new ListState.
refresh_serverlist(l, items) ==
    [l EXCEPT !.items = items, !.selected = NoIndex]

\* Char('a'): the form returns Ok(true) with a new server of this id,
\* Ok(false), or an error.
on_add(l, form_result, id) ==
    CASE form_result = "saved" -> refresh_serverlist(l, Append(l.items, id))
      [] form_result = "cancelled" -> l
      [] OTHER -> [l EXCEPT !.pc = "exit"]

\* Char('e'): new_edit or the form may fail; a saved form keeps the ids.
on_edit(l, form_result) ==
    IF l.selected = NoIndex THEN l
    ELSE IF ~InBounds(l) THEN ListPanic(l, "index")
    ELSE CASE form_result = "saved" -> refresh_serverlist(l, l.items)
           [] form_result = "cancelled" -> l
           [] OTHER -> [l EXCEPT !.pc = "exit"]

\* Char('d'): config.delete_server(..)?, items.remove(selected_index),
\* vault.delete_server(..)?; io names the store that fails.
on_delete(l, io) ==
    IF l.selected = NoIndex THEN l
    ELSE IF ~InBounds(l) THEN ListPanic(l, "index")
    ELSE IF io = "config" THEN [l EXCEPT !.pc = "exit"]
    ELSE LET l1 == [l EXCEPT !.items = RemoveAt(l.items, l.selected + 1)]
         IN  IF io = "vault" THEN [l1 EXCEPT !.pc = "exit"] ELSE l1

\* Enter: the row is read, then the session runs; after it a popup is up
\* ("popup"), or not ("done"), or an error left the loop.
on_enter(l, session_result) ==
    IF l.selected = NoIndex THEN l
    ELSE IF ~InBounds(l) THEN ListPanic(l, "index")
    ELSE CASE session_result = "popup" -> [l EXCEPT !.show_popup = TRUE]
           [] session_result = "done" -> [l EXCEPT !.show_popup = FALSE]
           [] OTHER -> [l EXCEPT !.pc = "exit"]

\* One iteration of the loop of App::run: draw, then the key; with a popup
\* up the key only closes it, else handled is what the arm of the key makes
\* of the list as drawn.
key_press(l, key, handled) ==
    IF draw(l).show_popup
    THEN [draw(l) EXCEPT !.show_popup = FALSE, !.key = key]
    ELSE [handled EXCEPT !.key = key]

\* What the form, the stores and a session may answer.
FormResults == {"saved", "cancelled", "err"}
DeleteResults == {"ok", "config", "vault"}
SessionResults == {"popup", "done", "err"}

ListInit ==
    /\ \E items \in {<<>>, << <<6>> >>, << <<4, 5>>, <<6>> >>},
          rows \in Rows, build \in {"debug", "release"} :
           server_list = ListStart(items, rows, build)
    /\ ssh_dir = {}
    /\ best = [called |-> FALSE, home |-> FALSE, dir |-> {}, key |-> NoPath]
    /\ server_creator = <<>>
    /\ SealIdle
    /\ VaultIdle
    /\ MainIdle
    /\ CopyIdle
    /\ AppIdle

Running == server_list.pc = "run"

ListStep(l) ==
    /\ server_list' = l
    /\ UNCHANGED <<ssh_dir, best, server_creator, sealVars, vaultVars,
                   mainVars, copyVars, appVars, history>>

\* Char('j') | Down
KeyNext ==
    /\ Running
    /\ ListStep(key_press(server_list, "j", next(draw(server_list))))

\* Char('k') | Up
KeyPrevious ==
    /\ Running
    /\ ListStep(key_press(server_list, "k", previous(draw(server_list))))

\* Char('a')
KeyAdd ==
    \E form_result \in FormResults, id \in Uuids :
        /\ Running
        /\ form_result = "saved" =>
               /\ Len(server_list.items) < MaxServers
               /\ \A i \in 1..Len(server_list.items) : server_list.items[i] # id
        /\ ListStep(key_press(server_list, "a",
                              on_add(draw(server_list), form_result, id)))

\* Char('e')
KeyEdit ==
    \E form_result \in FormResults :
        /\ Running
        /\ ListStep(key_press(server_list, "e",
                              on_edit(draw(server_list), form_result)))

\* Char('d')
KeyDelete ==
    \E io \in DeleteResults :
        /\ Running
        /\ ListStep(key_press(server_list, "d",
                              on_delete(draw(server_list), io)))

\* Enter
KeyEnter ==
    \E session_result \in SessionResults :
        /\ Running
        /\ ListStep(key_press(server_list, "Enter",
                              on_enter(draw(server_list), session_result)))

\* Char('q') | Esc, Ctrl+C
KeyQuit ==
    /\ Running
    /\ ListStep(key_press(server_list, "q",
                          [draw(server_list) EXCEPT !.pc = "exit"]))

\* The terminal is resized: Event::Resize is no key, and the loop draws
\* again.
ResizeTerminal ==
    \E rows \in Rows \ {server_list.rows} :
        /\ Running
        /\ ListStep([draw(server_list) EXCEPT !.rows = rows])

ListNext ==
    \/ KeyNext
    \/ KeyPrevious
    \/ KeyAdd
    \/ KeyEdit
    \/ KeyDelete
    \/ KeyEnter
    \/ KeyQuit
    \/ ResizeTerminal

SpecList == ListInit /\ [][ListNext]_vars

\* C36 (as claimed): no key in the list makes App::run index items out of
\* bounds or underflow items.len() - 1.
C36_SelectedIndexValid == server_list.pc \notin {"index", "overflow"}

\* The part of C36 that holds: as long as every draw rendered the list in
\* a non-empty area, no key panics.
C36_ValidWhenRendered ==
    ~server_list.skipped => server_list.pc \notin {"index", "overflow"}

-----------------------------------------------------------------------------
(* widgets/server_creator.rs: the form a server is added or edited with.   *)

\* enum CurrentSelect, as usize
CurrentSelect ==
    [User |-> 0, Ip |-> 1, Port |-> 2, Password |-> 3, Name |-> 4, Shell |-> 5]

\* The number of variants of CurrentSelect.
SelectCount == 6

\* Characters a key may carry, as UTF-8: a letter of one byte, a letter of
\* two bytes, and a white space of two bytes.
Letter == <<7>>
WideLetter == <<12, 8>>
WideSpace == <<13, 9>>
KeyChars == {Letter, WideLetter, WideSpace}

\* char::is_whitespace
is_whitespace(c) == c = WideSpace \/ c = <<Ch.nl>>

\* str::chars(): the characters of a string, each with its bytes.
RECURSIVE chars(_)
chars(str) ==
    IF str = <<>> THEN <<>>
    ELSE IF Head(str) >= 12 /\ Len(str) >= 2
         THEN <<Take(str, 2)>> \o chars(Drop(str, 2))
         ELSE <<Take(str, 1)>> \o chars(Drop(str, 1))

\* Iterator::collect::<String>()
RECURSIVE collect(_)
collect(cs) == IF cs = <<>> THEN <<>> ELSE Head(cs) \o collect(Tail(cs))

\* input.trim().is_empty()
trim_is_empty(str) ==
    \A i \in 1..Len(chars(str)) : is_whitespace(chars(str)[i])

\* "22" and "bash", the defaults of port and shell.
DefaultPort == <<6, 6>>
DefaultShell == <<7, 7>>

\* ServerCreator::new
creator_new ==
    [input |-> <<<<>>, <<>>, DefaultPort, <<>>, <<>>, DefaultShell>>,
     character_index |-> 0, current_select |-> CurrentSelect.User,
     mode |-> "New", server_id |-> <<>>, pc |-> "open", key |-> "", n |-> 0]

\* ServerCreator::new_edit for a server that is in both stores: the fields
\* of the config record and the decrypted password.
creator_new_edit(server, decrypted_password) ==
    [input |-> <<Letter, Letter, DefaultPort, decrypted_password,
                 server.name, DefaultShell>>,
     character_index |-> 0, current_select |-> CurrentSelect.User,
     mode |-> "Edit", server_id |-> server.id, pc |-> "open", key |-> "",
     n |-> 0]

\* self.input[self.current_select as usize]
current_input(f) == f.input[f.current_select + 1]

\* clamp_cursor
clamp_cursor(f, new_cursor_pos) ==
    LET count == Len(chars(current_input(f)))
    IN  IF new_cursor_pos < 0 THEN 0
        ELSE IF new_cursor_pos > count THEN count
        ELSE new_cursor_pos

\* move_cursor_left: saturating_sub(1), then clamp_cursor
move_cursor_left(f) ==
    LET cursor_moved_left ==
            IF f.character_index = 0 THEN 0 ELSE f.character_index - 1
    IN  [f EXCEPT !.character_index = clamp_cursor(f, cursor_moved_left)]

\* move_cursor_right: saturating_add(1), then clamp_cursor
move_cursor_right(f) ==
    LET cursor_moved_right ==
            IF f.character_index = USIZE_MAX THEN USIZE_MAX
            ELSE f.character_index + 1
    IN  [f EXCEPT !.character_index = clamp_cursor(f, cursor_moved_right)]

\* moveto_current_cursor
moveto_current_cursor(f) ==
    [f EXCEPT !.character_index = clamp_cursor(f, f.character_index)]

\* The byte offset of each character: char_indices().map(|(i, _)| i)
RECURSIVE char_indices(_, _)
char_indices(cs, at) ==
    IF cs = <<>> THEN <<>>
    ELSE <<at>> \o char_indices(Tail(cs), at + Len(Head(cs)))

\* byte_index: .nth(character_index).unwrap_or(len)
byte_index(f) ==
    LET idx == char_indices(chars(current_input(f)), 0)
    IN  IF f.character_index < Len(idx) THEN idx[f.character_index + 1]
        ELSE Len(current_input(f))

\* String::insert(idx, ch)
insert(str, idx, ch) == Take(str, idx) \o ch \o Drop(str, idx)

\* enter_char
enter_char(f, new_char) ==
    move_cursor_right(
        [f EXCEPT !.input[f.current_select + 1] =
                      insert(current_input(f), byte_index(f), new_char)])

\* delete_char: the characters before the one left of the cursor, chained
\* with those from the cursor on.
delete_char(f) ==
    IF f.character_index # 0
    THEN LET cs == chars(current_input(f))
             before_char_to_delete == Take(cs, f.character_index - 1)
             after_char_to_delete == Drop(cs, f.character_index)
         IN  move_cursor_left(
                 [f EXCEPT !.input[f.current_select + 1] =
                     collect(before_char_to_delete \o after_char_to_delete)])
    ELSE f

\* impl Add<isize> for CurrentSelect: rem_euclid(6)
select_add(current_select, other) == (current_select + other) % SelectCount

\* impl Sub<isize> for CurrentSelect: rem_euclid(6)
select_sub(current_select, other) == (current_select - other) % SelectCount

\* move_next_select_item
move_next_select_item(f) ==
    [f EXCEPT !.current_select = select_add(f.current_select, 1)]

\* move_pre_select_item
move_pre_select_item(f) ==
    [f EXCEPT !.current_select = select_sub(f.current_select, 1)]

\* A Down that leaves the cursor where it was in the field before.
on_down_unclamped(f) == move_next_select_item(f)

\* KeyCode::Down | KeyCode::Enter | KeyCode::Tab
on_down(f) == moveto_current_cursor(move_next_select_item(f))

\* KeyCode::Up
on_up(f) == moveto_current_cursor(move_pre_select_item(f))

\* A check that asks for the password as well.
must_continue_all_fields(f) ==
    \E i \in 0..(SelectCount - 1) : trim_is_empty(f.input[i + 1])

\* Ctrl+S: self.input.iter().enumerate().any(|(i, input)|
\* i != CurrentSelect::Password as usize && input.trim().is_empty())
must_continue(f) ==
    \E i \in 0..(SelectCount - 1) :
        i # CurrentSelect.Password /\ trim_is_empty(f.input[i + 1])

\* Ctrl+S past the check: the records are built and stored; new_id is what
\* Uuid::new_v4() returns in Server::new.
form_save(f, c, v, new_id, key, iv, cfs, vfs) ==
    creator_save(c, v, IF f.mode = "Edit" THEN f.server_id ELSE new_id,
                 f.input[CurrentSelect.Name + 1],
                 f.input[CurrentSelect.Password + 1], key, iv, cfs, vfs)

\* The most keys pressed in one form.
MaxKeys == 4

\* The server the stores hold when the form opens.
FormServer == ConfigServer(<<6>>, Letter)

\* 'a' or 'e' in the list: the stores hold one server, whose password is
\* empty or not, and the form opens empty or on that server.
FormInit ==
    /\ config = <<FormServer>>
    /\ config_file = config_to_string(config)
    /\ \E p \in UnlockPassphrases : encryption_key = derive_key_from_password(p)
    /\ \E plain \in PlainPasswords :
          /\ servers = <<Server(FormServer.id,
                                encrypt_password(FormServer.id, plain,
                                                 encryption_key))>>
          /\ server_creator \in {creator_new, creator_new_edit(FormServer, plain)}
    /\ \E iv \in SaveIVs : file = encrypt_vault(servers, encryption_key, iv)
    /\ last = Idle
    /\ errors = 0
    /\ app = AppStart
    /\ ui = Idle
    /\ history = <<>>
    /\ ssh_dir = {}
    /\ best = [called |-> FALSE, home |-> FALSE, dir |-> {}, key |-> NoPath]
    /\ server_list = <<>>
    /\ SealIdle
    /\ MainIdle
    /\ CopyIdle

FormOpen == server_creator.pc = "open" /\ server_creator.n < MaxKeys

\* A key that changes the form only.
FormStep(f, key) ==
    /\ server_creator' = [f EXCEPT !.key = key, !.n = server_creator.n + 1]
    /\ UNCHANGED <<ssh_dir, best, server_list, sealVars, vaultVars, mainVars,
                   copyVars, appVars, history>>

\* KeyCode::Char(to_insert), not Ctrl+C or Ctrl+S
FormChar ==
    /\ FormOpen
    /\ \E to_insert \in KeyChars :
          FormStep(enter_char(server_creator, to_insert), "Char")

\* KeyCode::Backspace
FormBackspace ==
    /\ FormOpen
    /\ FormStep(delete_char(server_creator), "Backspace")

\* KeyCode::Left
FormLeft ==
    /\ FormOpen
    /\ FormStep(move_cursor_left(server_creator), "Left")

\* KeyCode::Right
FormRight ==
    /\ FormOpen
    /\ FormStep(move_cursor_right(server_creator), "Right")

\* KeyCode::Up
FormUp ==
    /\ FormOpen
    /\ FormStep(on_up(server_creator), "Up")

\* KeyCode::Down | KeyCode::Enter | KeyCode::Tab
FormDown ==
    /\ FormOpen
    /\ FormStep(on_down(server_creator), "Down")

\* KeyCode::Esc, Ctrl+C: return Ok(false)
FormCancel ==
    /\ FormOpen
    /\ FormStep([server_creator EXCEPT !.pc = "cancelled"], "Esc")

\* Ctrl+S
FormSave ==
    /\ FormOpen
    /\ IF must_continue(server_creator)
       THEN FormStep(server_creator, "^S")
       ELSE \E new_id \in Uuids \ IdsOf(config), iv \in SaveIVs,
               cfs \in FsOutcomes, vfs \in FsOutcomes :
               LET r == form_save(server_creator,
                                  [servers |-> config, file |-> config_file],
                                  [servers |-> servers, file |-> file],
                                  new_id, encryption_key, iv, cfs, vfs)
               IN  /\ config' = r.config
                   /\ config_file' = r.config_file
                   /\ servers' = r.servers
                   /\ file' = r.file
                   /\ server_creator' =
                          [server_creator EXCEPT
                               !.pc = IF r.result.kind = "ok" THEN "saved"
                                      ELSE "err",
                               !.key = "^S", !.n = server_creator.n + 1]
                   /\ UNCHANGED <<app, ui, encryption_key, last, errors,
                                  ssh_dir, best, server_list, sealVars,
                                  mainVars, copyVars, history>>

FormNext ==
    \/ FormChar
    \/ FormBackspace
    \/ FormLeft
    \/ FormRight
    \/ FormUp
    \/ FormDown
    \/ FormCancel
    \/ FormSave

SpecForm == FormInit /\ [][FormNext]_vars

\* The last step was the key named.
Pressed(key) ==
    /\ server_creator'.key = key
    /\ server_creator'.n = server_creator.n + 1

\* One of user, ip, port, name, shell is empty or white space only.
FieldMissing(f) ==
    \/ trim_is_empty(f.input[1])
    \/ trim_is_empty(f.input[2])
    \/ trim_is_empty(f.input[3])
    \/ trim_is_empty(f.input[5])
    \/ trim_is_empty(f.input[6])

\* C37: Ctrl+S with one of user, ip, port, name, shell empty or white
\* space only changes neither store nor file and leaves the form open as it
\* was; Ctrl+S with those five filled in goes on to save whatever the
\* password field holds: the form closes, and when it returned Ok(true) both
\* stores hold the record.
C37_SaveNeedsFields ==
    [][Pressed("^S") =>
          IF FieldMissing(server_creator)
          THEN /\ UNCHANGED <<config, config_file, servers, file>>
               /\ server_creator'.pc = "open"
               /\ server_creator'.input = server_creator.input
               /\ server_creator'.character_index = server_creator.character_index
               /\ server_creator'.current_select = server_creator.current_select
          ELSE /\ server_creator'.pc \in {"saved", "err"}
               /\ server_creator'.pc = "saved" =>
                     \E i \in 1..Len(config') :
                        /\ config'[i].name = server_creator.input[5]
                        /\ find_password(servers', config'[i].id, encryption_key)
                               = Ok(server_creator.input[4])
                        /\ config_file' = config_to_string(config')
                        /\ decrypt_vault(file', encryption_key) = Ok(servers')
    ]_vars

\* C37 witness: Ctrl+S on a form whose user is white space only, with the
\* other four fields filled in, and the form is still open.
C37_Witness ==
    /\ server_creator.key = "^S" /\ server_creator.pc = "open"
    /\ server_creator.input[1] = WideSpace
    /\ \A i \in {2, 3, 5, 6} : ~trim_is_empty(server_creator.input[i])

\* A form saved with an empty password.
C37_SavedWithoutPassword ==
    /\ server_creator.key = "^S" /\ server_creator.pc = "saved"
    /\ server_creator.input[4] = <<>>

\* The cursor is on a character of the selected field or right after the
\* last one, and the selection is one of the six fields.
CursorInside ==
    /\ server_creator.current_select \in 0..5
    /\ server_creator.character_index \in
           0..Len(chars(server_creator.input[server_creator.current_select + 1]))

\* Down, Enter and Tab select the next field and Up the one before, the
\* first following the last; no other key changes the selection.
SelectionCyclic ==
    /\ Pressed("Down") =>
          server_creator'.current_select =
              IF server_creator.current_select = 5 THEN 0
              ELSE server_creator.current_select + 1
    /\ Pressed("Up") =>
          server_creator'.current_select =
              IF server_creator.current_select = 0 THEN 5
              ELSE server_creator.current_select - 1
    /\ (\E key \in {"Char", "Backspace", "Left", "Right", "Esc", "^S"} :
            Pressed(key))
          => server_creator'.current_select = server_creator.current_select

\* C39: after every sequence of keys character_index is between 0 and the
\* number of characters of the selected field, and the selection moves
\* through the six fields cyclically.
C39_CursorInField == []CursorInside /\ [][SelectionCyclic]_vars

\* C39 witness: two characters typed into user, of three bytes together,
\* then Down to the empty ip: the cursor is at 0.
C39_Witness ==
    /\ server_creator.key = "Down" /\ server_creator.n = 3
    /\ server_creator.current_select = CurrentSelect.Ip
    /\ server_creator.input[1] = WideLetter \o Letter
    /\ server_creator.input[2] = <<>>
    /\ server_creator.character_index = 0

\* Up from the first field: the last one is selected.
C39_UpWraps ==
    /\ server_creator.key = "Up" /\ server_creator.n = 1
    /\ server_creator.current_select = CurrentSelect.Shell

====
